---- MODULE Spec2Model ----
(***************************************************************************)
(* honey-bee: the calculation engine (pairwise weights, weighted utility,  *)
(* TCO / NPV / ROI, risk levels, composite ranking) and the state          *)
(* operations of the NWA, TCO and risk tools around it.                    *)
(*                                                                         *)
(* Numbers.  JavaScript numbers are modelled as exact rationals            *)
(* [n |-> numerator, d |-> denominator] in lowest terms with d > 0; the    *)
(* result of a division by zero (Infinity or NaN) is NotFinite.  Rounding  *)
(* of IEEE doubles is therefore not modelled.                              *)
(*                                                                         *)
(* Identifiers.  crypto.randomUUID() is modelled by per-kind counters      *)
(* (genCount) for criteria and vendors: an id is never handed out twice.   *)
(* Cost, benefit and risk items and TCO options, which nothing refers to   *)
(* from outside their list, get an id that is fresh within their list.     *)
(*                                                                         *)
(* Objects.  A JavaScript object used as a map is a function whose DOMAIN  *)
(* is the set of its keys; the pairwise key `${id1}:${id2}` is the tuple   *)
(* <<id1, id2>>.                                                           *)
(***************************************************************************)
EXTENDS Integers, Sequences, FiniteSets, TLC

VARIABLES
    stored,       \* the record under STORAGE_KEY in localStorage
    nwaProject,   \* `project` of the NWA tool (state.ts)
    tcoProject,   \* `project` of the TCO tool (tco-state)
    riskProject,  \* `project` of the risk tool (risk-state)
    genCount,     \* ids handed out so far, per kind
    dashboard     \* the dashboard page: its three weights and the ranking it shows

vars == <<stored, nwaProject, tcoProject, riskProject, genCount, dashboard>>

----------------------------------------------------------------------------
(* Bounds of the model and input samples *)

MaxCriteria == 3
MaxJudgments == 3
MaxScoredCriteria == 2
MaxVendors == 2
MaxScores == 1
MaxOptions == 1
MaxCostItems == 2
MaxBenefits == 1
MaxRisks == 2
MaxRankedVendors == 2

MaxRiskId == 2

JudgmentInputs == {0, 1, 2}
ScoreInputs == {0, 4, 10}
(* amounts are entered in units of 100 CHF, to keep the exact discounted
   values within TLC's integers *)
AmountInputs == {-5, 0, 10}
BenefitInputs == {0, 5}
YearInputs == {2}
RateInputs == {0}
ProbabilityInputs == {1, 2, 5}
ImpactInputs == {4, 5}
WeightInputs == {0}

----------------------------------------------------------------------------
(* Generic helpers *)

Range(s) == {s[i] : i \in DOMAIN s}

EmptyMap == [k \in {} |-> 0]

MapPut(m, k, v) == [x \in DOMAIN m \cup {k} |-> IF x = k THEN v ELSE m[x]]

MapDel(m, k) == [x \in DOMAIN m \ {k} |-> m[x]]

MapGet(m, k, default) == IF k \in DOMAIN m THEN m[k] ELSE default

IndexOf(s, Test(_)) ==
    IF \E i \in DOMAIN s : Test(s[i])
    THEN CHOOSE i \in DOMAIN s : Test(s[i]) /\ \A j \in 1..(i - 1) : ~Test(s[j])
    ELSE 0

Abs(x) == IF x < 0 THEN -x ELSE x

RECURSIVE GCD(_, _)
GCD(a, b) == IF b = 0 THEN a ELSE GCD(b, a % b)

(* Rationals *)
NotFinite == [n |-> 0, d |-> 0]

Rat(n, d) ==
    IF d = 0 THEN NotFinite
    ELSE LET g == GCD(Abs(n), Abs(d))
             s == IF d < 0 THEN -1 ELSE 1
         IN [n |-> s * (n \div g), d |-> s * (d \div g)]

R(i) == [n |-> i, d |-> 1]

IsFinite(x) == x.d # 0

RAdd(x, y) ==
    IF ~IsFinite(x) \/ ~IsFinite(y) THEN NotFinite
    ELSE LET g == GCD(x.d, y.d)
             l == (x.d \div g) * y.d
         IN Rat(x.n * (l \div x.d) + y.n * (l \div y.d), l)

RMul(x, y) ==
    IF ~IsFinite(x) \/ ~IsFinite(y) THEN NotFinite
    ELSE LET g1 == GCD(Abs(x.n), y.d)
             g2 == GCD(Abs(y.n), x.d)
             h1 == IF g1 = 0 THEN 1 ELSE g1
             h2 == IF g2 = 0 THEN 1 ELSE g2
         IN Rat((x.n \div h1) * (y.n \div h2), (x.d \div h2) * (y.d \div h1))

RDiv(x, y) ==
    IF ~IsFinite(x) \/ ~IsFinite(y) \/ y.n = 0 THEN NotFinite
    ELSE RMul(x, Rat(y.d, y.n))

RSub(x, y) == RAdd(x, RMul(R(-1), y))

RLeq(x, y) == RSub(y, x).n >= 0

RLt(x, y) == RSub(y, x).n > 0

(* s.reduce((a, x) => a + x, 0), left to right *)
RECURSIVE RSumTo(_, _)
RSumTo(s, k) == IF k = 0 THEN R(0) ELSE RAdd(RSumTo(s, k - 1), s[k])

RSumSeq(s) == RSumTo(s, Len(s))

RECURSIVE SumTo(_, _)
SumTo(s, k) == IF k = 0 THEN 0 ELSE SumTo(s, k - 1) + s[k]

SumSeq(s) == SumTo(s, Len(s))

----------------------------------------------------------------------------
(* storage.ts: the shared stored record *)

createDefault ==
    [ name |-> "Neues Projekt",
      vendors |-> <<>>,
      nwa |-> [criteria |-> <<>>, pairwise |-> EmptyMap, scores |-> EmptyMap],
      tco |-> [years |-> 5, discountRate |-> 5, costs |-> EmptyMap, benefits |-> <<>>],
      risk |-> [vendors |-> EmptyMap] ]

----------------------------------------------------------------------------
(* state.ts: the NWA tool *)

loadFromStorage(st) ==
    [ name |-> st.name,
      criteria |-> st.nwa.criteria,
      pairwise |-> st.nwa.pairwise,
      vendors |-> [i \in DOMAIN st.vendors |->
                     [id |-> st.vendors[i].id,
                      scores |-> MapGet(st.nwa.scores, st.vendors[i].id, EmptyMap)]] ]

(* Mutant of persist: the cost records and risk lists of the vendors that
   left the NWA vendor list are deleted with them. *)
persistCascading(st, p) ==
    LET nwaIds == {p.vendors[i].id : i \in DOMAIN p.vendors}
    IN [st EXCEPT
          !.name = p.name,
          !.vendors = [i \in DOMAIN p.vendors |-> [id |-> p.vendors[i].id]],
          !.nwa = [criteria |-> p.criteria,
                   pairwise |-> p.pairwise,
                   scores |-> [id \in nwaIds |->
                                 LET i == CHOOSE j \in DOMAIN p.vendors : p.vendors[j].id = id
                                 IN p.vendors[i].scores]],
          !.tco.costs = [id \in DOMAIN st.tco.costs \cap nwaIds |-> st.tco.costs[id]],
          !.risk.vendors = [id \in DOMAIN st.risk.vendors \cap nwaIds |-> st.risk.vendors[id]] ]

persist(st, p) ==
    LET nwaIds == {p.vendors[i].id : i \in DOMAIN p.vendors}
        keep(v) == v.id \notin nwaIds
                   /\ (v.id \in DOMAIN st.tco.costs \/ v.id \in DOMAIN st.risk.vendors)
        tcoOnlyVendors == SelectSeq(st.vendors, keep)
    IN [st EXCEPT
          !.name = p.name,
          !.vendors = [i \in DOMAIN p.vendors |-> [id |-> p.vendors[i].id]] \o tcoOnlyVendors,
          !.nwa = [criteria |-> p.criteria,
                   pairwise |-> p.pairwise,
                   scores |-> [id \in nwaIds |->
                                 LET i == CHOOSE j \in DOMAIN p.vendors : p.vendors[j].id = id
                                 IN p.vendors[i].scores]] ]

(* notify(): persist, then call the listeners (rendering; not modelled) *)
notify(p) ==
    /\ nwaProject' = p
    /\ stored' = persist(stored, p)
    /\ UNCHANGED dashboard

addCriterion ==
    /\ genCount' = [genCount EXCEPT !.criterion = @ + 1]
    /\ notify([nwaProject EXCEPT !.criteria = Append(@, genCount.criterion + 1)])
    /\ UNCHANGED <<tcoProject, riskProject>>

(* Mutant of removeCriterion: the vendor scores are not cleaned. *)
removeCriterionKeepScores(id) ==
    LET notId(c) == c # id
    IN /\ notify([nwaProject EXCEPT
                    !.criteria = SelectSeq(@, notId),
                    !.pairwise = [k \in {x \in DOMAIN @ : x[1] # id /\ x[2] # id} |-> @[k]]])
       /\ UNCHANGED <<tcoProject, riskProject, genCount>>

removeCriterion(id) ==
    LET notId(c) == c # id
        clean(v) == [v EXCEPT !.scores = MapDel(@, id)]
    IN /\ notify([nwaProject EXCEPT
                    !.criteria = SelectSeq(@, notId),
                    !.pairwise = [k \in {x \in DOMAIN @ : x[1] # id /\ x[2] # id} |-> @[k]],
                    !.vendors = [i \in DOMAIN @ |-> clean(@[i])]])
       /\ UNCHANGED <<tcoProject, riskProject, genCount>>

setPairwise(id1, id2, value) ==
    /\ notify([nwaProject EXCEPT !.pairwise = MapPut(@, <<id1, id2>>, value)])
    /\ UNCHANGED <<tcoProject, riskProject, genCount>>

getPairwise(id1, id2) == MapGet(nwaProject.pairwise, <<id1, id2>>, 1)

addVendor ==
    /\ genCount' = [genCount EXCEPT !.vendor = @ + 1]
    /\ notify([nwaProject EXCEPT
                 !.vendors = Append(@, [id |-> genCount.vendor + 1, scores |-> EmptyMap])])
    /\ UNCHANGED <<tcoProject, riskProject>>

removeVendor(id) ==
    LET notId(v) == v.id # id
    IN /\ notify([nwaProject EXCEPT !.vendors = SelectSeq(@, notId)])
       /\ UNCHANGED <<tcoProject, riskProject, genCount>>

setVendorScore(vendorId, criterionId, score) ==
    LET isV(v) == v.id = vendorId
        i == IndexOf(nwaProject.vendors, isV)
    IN /\ notify(IF i = 0 THEN nwaProject
                 ELSE [nwaProject EXCEPT !.vendors[i].scores = MapPut(@, criterionId, score)])
       /\ UNCHANGED <<tcoProject, riskProject, genCount>>

(* Mutants of Contribution: the direct key read without inversion, and the
   mirror key read with inversion. *)
ContributionDirectPlain(pairwise, c, other) ==
    IF <<c, other>> \in DOMAIN pairwise THEN pairwise[<<c, other>>]
    ELSE IF <<other, c>> \in DOMAIN pairwise THEN pairwise[<<other, c>>]
    ELSE 1

ContributionMirrorInverted(pairwise, c, other) ==
    IF <<c, other>> \in DOMAIN pairwise THEN 2 - pairwise[<<c, other>>]
    ELSE IF <<other, c>> \in DOMAIN pairwise THEN 2 - pairwise[<<other, c>>]
    ELSE 1

(* Mutant of Contribution: a pair without a judgment adds nothing. *)
ContributionNoDefault(pairwise, c, other) ==
    IF <<c, other>> \in DOMAIN pairwise THEN 2 - pairwise[<<c, other>>]
    ELSE IF <<other, c>> \in DOMAIN pairwise THEN pairwise[<<other, c>>]
    ELSE 0

(* calculateWeights: the pairwise contribution of `other` to c *)
Contribution(pairwise, c, other) ==
    IF <<c, other>> \in DOMAIN pairwise THEN 2 - pairwise[<<c, other>>]
    ELSE IF <<other, c>> \in DOMAIN pairwise THEN pairwise[<<other, c>>]
    ELSE 1

RECURSIVE InnerSum(_, _, _, _)
InnerSum(criteria, pairwise, c, i) ==
    IF i > Len(criteria) THEN 0
    ELSE (IF criteria[i] = c THEN 0 ELSE Contribution(pairwise, c, criteria[i]))
         + InnerSum(criteria, pairwise, c, i + 1)

TotalOf(criteria, absoluteWeights) ==
    SumSeq([i \in DOMAIN criteria |-> absoluteWeights[criteria[i]]])

(* Mutant of RelativeWeight: the totalAbsolute > 0 guard dropped. *)
RelativeWeightUnguarded(absolute, totalAbsolute) ==
    RDiv(R(absolute), R(totalAbsolute))

RelativeWeight(absolute, totalAbsolute) ==
    IF totalAbsolute > 0 THEN RDiv(R(absolute), R(totalAbsolute)) ELSE R(0)

calculateWeightsOf(criteria, pairwise) ==
    LET absoluteWeights == [c \in Range(criteria) |-> InnerSum(criteria, pairwise, c, 1)]
        totalAbsolute == TotalOf(criteria, absoluteWeights)
    IN [ absoluteWeights |-> absoluteWeights,
         relativeWeights |-> [c \in Range(criteria) |->
                                RelativeWeight(absoluteWeights[c], totalAbsolute)],
         totalAbsolute |-> totalAbsolute ]

calculateWeights == calculateWeightsOf(nwaProject.criteria, nwaProject.pairwise)

(* Mutant of RawScore: a missing score read as 1. *)
RawScoreDefaultOne(scores, criterionId) == MapGet(scores, criterionId, 1)

(* v.scores[c.id] ?? 0 *)
RawScore(scores, criterionId) == MapGet(scores, criterionId, 0)

(* one row of calculateResults: the criterion with its weights and one cell
   per vendor *)
ResultRow(w, c) ==
    LET vendors == nwaProject.vendors
    IN [ criterionId |-> c,
         absoluteWeight |-> w.absoluteWeights[c],
         relativeWeight |-> w.relativeWeights[c],
         vendorScores |->
             [j \in DOMAIN vendors |->
                [ vendorId |-> vendors[j].id,
                  rawScore |-> RawScore(vendors[j].scores, c),
                  weightedScore |-> RMul(R(RawScore(vendors[j].scores, c)),
                                         w.relativeWeights[c]) ]] ]

calculateResultsOf(w) ==
    [i \in DOMAIN nwaProject.criteria |-> ResultRow(w, nwaProject.criteria[i])]

calculateResults == calculateResultsOf(calculateWeights)

(* r.vendorScores.find(s => s.vendorId === v.id)?.weightedScore ?? 0 *)
WeightedCell(r, vendorId) ==
    LET isV(s) == s.vendorId = vendorId
        k == IndexOf(r.vendorScores, isV)
    IN IF k = 0 THEN R(0) ELSE r.vendorScores[k].weightedScore

(* results.reduce(...) for one vendor *)
TotalWeighted(results, vendorId) ==
    RSumSeq([i \in DOMAIN results |-> WeightedCell(results[i], vendorId)])

getVendorTotalsOf(results) ==
    [j \in DOMAIN nwaProject.vendors |->
       [ vendorId |-> nwaProject.vendors[j].id,
         totalWeighted |-> TotalWeighted(results, nwaProject.vendors[j].id) ]]

getVendorTotals == getVendorTotalsOf(calculateResults)

----------------------------------------------------------------------------
(* pptx-export.ts: the NWA calculations replicated for the slide export *)

calcNwaContribution(pairwise, c, other) ==
    IF <<c, other>> \in DOMAIN pairwise THEN 2 - pairwise[<<c, other>>]
    ELSE IF <<other, c>> \in DOMAIN pairwise THEN pairwise[<<other, c>>]
    ELSE 1

RECURSIVE calcNwaInnerSum(_, _, _, _)
calcNwaInnerSum(criteria, pairwise, c, i) ==
    IF i > Len(criteria) THEN 0
    ELSE (IF criteria[i] = c THEN 0 ELSE calcNwaContribution(pairwise, c, criteria[i]))
         + calcNwaInnerSum(criteria, pairwise, c, i + 1)

calcNwaWeights(st) ==
    LET criteria == st.nwa.criteria
        absoluteWeights ==
            [c \in Range(criteria) |-> calcNwaInnerSum(criteria, st.nwa.pairwise, c, 1)]
        totalAbsolute == SumSeq([i \in DOMAIN criteria |-> absoluteWeights[criteria[i]]])
    IN [ absoluteWeights |-> absoluteWeights,
         relativeWeights |-> [c \in Range(criteria) |->
                                IF totalAbsolute > 0
                                THEN RDiv(R(absoluteWeights[c]), R(totalAbsolute))
                                ELSE R(0)] ]

calcNwaVendorTotals(st) ==
    LET relativeWeights == calcNwaWeights(st).relativeWeights
        criteria == st.nwa.criteria
    IN [j \in DOMAIN st.vendors |->
          LET scores == MapGet(st.nwa.scores, st.vendors[j].id, EmptyMap)
          IN [ vendorId |-> st.vendors[j].id,
               total |-> RSumSeq([i \in DOMAIN criteria |->
                                    RMul(R(MapGet(scores, criteria[i], 0)),
                                         MapGet(relativeWeights, criteria[i], R(0)))]) ]]

----------------------------------------------------------------------------
(* storage.ts (dashboard): calculateComposite *)

(* the pairwise contribution as the dashboard reads it *)
compositeContribution(pairwise, c, other) ==
    IF <<c, other>> \in DOMAIN pairwise THEN pairwise[<<c, other>>]
    ELSE IF <<other, c>> \in DOMAIN pairwise THEN 2 - pairwise[<<other, c>>]
    ELSE 1

RECURSIVE compositeInnerSum(_, _, _, _)
compositeInnerSum(criteria, pairwise, c, i) ==
    IF i > Len(criteria) THEN 0
    ELSE (IF criteria[i] = c THEN 0 ELSE compositeContribution(pairwise, c, criteria[i]))
         + compositeInnerSum(criteria, pairwise, c, i + 1)

compositeRelativeWeights(st) ==
    LET criteria == st.nwa.criteria
        absoluteWeights ==
            [c \in Range(criteria) |-> compositeInnerSum(criteria, st.nwa.pairwise, c, 1)]
        totalAbsolute == SumSeq([i \in DOMAIN criteria |-> absoluteWeights[criteria[i]]])
    IN [c \in Range(criteria) |->
          IF totalAbsolute > 0 THEN RDiv(R(absoluteWeights[c]), R(totalAbsolute)) ELSE R(0)]

(* nwaScores: an entry for every vendor of the record when there are criteria,
   no entry at all otherwise *)
nwaScores(st) ==
    LET criteria == st.nwa.criteria
        relativeWeights == compositeRelativeWeights(st)
        ids == IF Len(criteria) > 0 THEN {st.vendors[j].id : j \in DOMAIN st.vendors} ELSE {}
    IN [id \in ids |->
          LET scores == MapGet(st.nwa.scores, id, EmptyMap)
          IN RSumSeq([i \in DOMAIN criteria |->
                        RMul(R(MapGet(scores, criteria[i], 0)), relativeWeights[criteria[i]])])]

(* state.ts: the project name and the JSON export and import of the NWA tool *)

setProjectName(name) ==
    /\ notify([nwaProject EXCEPT !.name = name])
    /\ UNCHANGED <<tcoProject, riskProject, genCount>>

(* A JSON text, by the value it denotes: a string, a number, an array of
   values or an object, which maps its keys to values. *)
JsonString(s) == [type |-> "string", text |-> s]

JsonNumber(n) == [type |-> "number", number |-> n]

JsonArray(items) == [type |-> "array", items |-> items]

JsonObject(members) == [type |-> "object", members |-> members]

(* JSON.stringify(project, null, 2) *)
stringify(p) ==
    JsonObject(
      [ name |-> JsonString(p.name),
        criteria |-> JsonArray([i \in DOMAIN p.criteria |->
                                  JsonObject([id |-> JsonString(p.criteria[i])])]),
        pairwise |-> JsonObject([key \in DOMAIN p.pairwise |-> JsonNumber(p.pairwise[key])]),
        vendors |-> JsonArray([j \in DOMAIN p.vendors |->
                                 JsonObject(
                                   [ id |-> JsonString(p.vendors[j].id),
                                     scores |-> JsonObject([c \in DOMAIN p.vendors[j].scores |->
                                                              JsonNumber(p.vendors[j].scores[c])]) ])]) ])

(* JSON.parse(json) as Project, for a text that stringify has written *)
parse(json) ==
    LET m == json.members
    IN [ name |-> m.name.text,
         criteria |-> [i \in DOMAIN m.criteria.items |-> m.criteria.items[i].members.id.text],
         pairwise |-> [key \in DOMAIN m.pairwise.members |-> m.pairwise.members[key].number],
         vendors |-> [j \in DOMAIN m.vendors.items |->
                        [ id |-> m.vendors.items[j].members.id.text,
                          scores |-> [c \in DOMAIN m.vendors.items[j].members.scores.members |->
                                        m.vendors.items[j].members.scores.members[c].number] ]] ]

exportProject == stringify(nwaProject)

(* p.key: undefined when the value is no object or has no such member *)
Undefined == [type |-> "undefined"]

Member(json, key) ==
    IF json.type = "object" /\ key \in DOMAIN json.members THEN json.members[key]
    ELSE Undefined

(* !v, for undefined and strings *)
Falsy(v) == v.type = "undefined" \/ (v.type = "string" /\ v.text = "")

(* Array.isArray(v) *)
IsArray(v) == v.type = "array"

(* !p.name || !Array.isArray(p.criteria) || !Array.isArray(p.vendors): the
   import throws 'Ungültiges Projektformat' *)
Rejected(json) ==
    \/ Falsy(Member(json, "name"))
    \/ ~IsArray(Member(json, "criteria"))
    \/ ~IsArray(Member(json, "vendors"))

(* importProject(json): the throw leaves everything as it is *)
importProject(json) ==
    IF Rejected(json)
    THEN UNCHANGED vars
    ELSE /\ notify(parse(json))
         /\ UNCHANGED <<tcoProject, riskProject, genCount>>

----------------------------------------------------------------------------
(* tco-state: the TCO tool *)

createEmptyProject ==
    [ name |-> "Neues TCO-Projekt",
      years |-> 5,
      discountRate |-> 5,
      options |-> <<>>,
      benefits |-> <<>> ]

Max(a, b) == IF a > b THEN a ELSE b

Min(a, b) == IF a < b THEN a ELSE b

(* genId() for an element of a list: an id no element of the list has *)
FreshId(items) ==
    1 + (IF items = <<>> THEN 0
         ELSE CHOOSE m \in {items[i].id : i \in DOMAIN items} :
                  \A i \in DOMAIN items : items[i].id <= m)

(* notify() of the TCO tool calls the listeners only *)
tcoNotify(p) ==
    /\ tcoProject' = p
    /\ UNCHANGED <<stored, nwaProject, riskProject, genCount, dashboard>>

(* Mutants of setYears and setDiscountRate: the argument stored as given. *)
setYearsUnclamped(years) == tcoNotify([tcoProject EXCEPT !.years = years])

setYears(years) == tcoNotify([tcoProject EXCEPT !.years = Max(1, Min(15, years))])

setDiscountRate(rate) == tcoNotify([tcoProject EXCEPT !.discountRate = Max(0, Min(50, rate))])

addOption ==
    tcoNotify([tcoProject EXCEPT
                 !.options = Append(@, [id |-> FreshId(@), initialCosts |-> <<>>,
                                        annualCosts |-> <<>>])])

removeOption(id) ==
    LET notId(o) == o.id # id
    IN tcoNotify([tcoProject EXCEPT !.options = SelectSeq(@, notId)])

OptionIndex(optionId) ==
    LET isO(o) == o.id = optionId IN IndexOf(tcoProject.options, isO)

ItemIndex(items, itemId) ==
    LET isI(c) == c.id = itemId IN IndexOf(items, isI)

addInitialCost(optionId) ==
    LET k == OptionIndex(optionId)
    IN tcoNotify(IF k = 0 THEN tcoProject
                 ELSE [tcoProject EXCEPT !.options[k].initialCosts =
                          Append(@, [id |-> FreshId(@), amount |-> 0])])

updateInitialCost(optionId, costId, amount) ==
    LET k == OptionIndex(optionId)
    IN /\ k # 0
       /\ LET c == ItemIndex(tcoProject.options[k].initialCosts, costId)
          IN tcoNotify(IF c = 0 THEN tcoProject
                       ELSE [tcoProject EXCEPT !.options[k].initialCosts[c].amount = amount])

removeInitialCost(optionId, costId) ==
    LET k == OptionIndex(optionId)
        notId(c) == c.id # costId
    IN tcoNotify(IF k = 0 THEN tcoProject
                 ELSE [tcoProject EXCEPT !.options[k].initialCosts = SelectSeq(@, notId)])

addAnnualCost(optionId) ==
    LET k == OptionIndex(optionId)
    IN tcoNotify(IF k = 0 THEN tcoProject
                 ELSE [tcoProject EXCEPT !.options[k].annualCosts =
                          Append(@, [id |-> FreshId(@), amount |-> 0])])

updateAnnualCost(optionId, costId, amount) ==
    LET k == OptionIndex(optionId)
    IN /\ k # 0
       /\ LET c == ItemIndex(tcoProject.options[k].annualCosts, costId)
          IN tcoNotify(IF c = 0 THEN tcoProject
                       ELSE [tcoProject EXCEPT !.options[k].annualCosts[c].amount = amount])

removeAnnualCost(optionId, costId) ==
    LET k == OptionIndex(optionId)
        notId(c) == c.id # costId
    IN tcoNotify(IF k = 0 THEN tcoProject
                 ELSE [tcoProject EXCEPT !.options[k].annualCosts = SelectSeq(@, notId)])

addBenefit ==
    tcoNotify([tcoProject EXCEPT
                 !.benefits = Append(@, [id |-> FreshId(@), annualAmount |-> 0])])

updateBenefit(id, annualAmount) ==
    LET b == ItemIndex(tcoProject.benefits, id)
    IN tcoNotify(IF b = 0 THEN tcoProject
                 ELSE [tcoProject EXCEPT !.benefits[b].annualAmount = annualAmount])

removeBenefit(id) ==
    LET notId(b) == b.id # id
    IN tcoNotify([tcoProject EXCEPT !.benefits = SelectSeq(@, notId)])

(* importProject(json), for JSON that parses to a project p with a name and
   with options and benefits arrays *)
tcoImportProject(p) == tcoNotify(p)

(* JSON.parse(json): strings and numbers as they are, arrays as sequences,
   objects as records of their members *)
RECURSIVE tcoParse(_)
tcoParse(json) ==
    CASE json.type = "string" -> json.text
      [] json.type = "number" -> json.number
      [] json.type = "array" -> [i \in DOMAIN json.items |-> tcoParse(json.items[i])]
      [] json.type = "object" -> [k \in DOMAIN json.members |-> tcoParse(json.members[k])]

(* Mutant of tcoRejected: the arrays are not looked at. *)
tcoRejectedNameOnly(json) == Falsy(Member(json, "name"))

(* !p.name || !Array.isArray(p.options) || !Array.isArray(p.benefits): the
   import throws 'Ungueltiges TCO-Projektformat' *)
tcoRejected(json) ==
    \/ Falsy(Member(json, "name"))
    \/ ~IsArray(Member(json, "options"))
    \/ ~IsArray(Member(json, "benefits"))

(* importProject(json) of the TCO tool: the throw leaves everything as it is *)
tcoImportJson(json) ==
    IF tcoRejected(json) THEN UNCHANGED vars ELSE tcoImportProject(tcoParse(json))

(* items.reduce((s, c) => s + c.amount, 0) *)
TotalAmount(items) == SumSeq([i \in DOMAIN items |-> items[i].amount])

(* Math.pow(base, y) *)
RECURSIVE RPow(_, _)
RPow(base, y) == IF y = 0 THEN R(1) ELSE RMul(RPow(base, y - 1), base)

(* Mutant of YearTotal: the annual costs charged in year 0 as well. *)
YearTotalAnnualInYearZero(totalInitial, totalAnnual, y) ==
    (IF y = 0 THEN totalInitial ELSE 0) + totalAnnual

(* the cost of year y: initial + annual *)
YearTotal(totalInitial, totalAnnual, y) ==
    (IF y = 0 THEN totalInitial ELSE 0) + (IF y = 0 THEN 0 ELSE totalAnnual)

(* Mutant of Discounted: year 0 discounted like year 1. *)
DiscountedYearZeroAsYearOne(total, rate, y) ==
    RDiv(R(total), RPow(RAdd(R(1), rate), Max(y, 1)))

(* total / Math.pow(1 + rate, y) *)
Discounted(total, rate, y) == RDiv(R(total), RPow(RAdd(R(1), rate), y))

(* the loop of calculateOptionResult up to year `last`: the schedule so far *)
RECURSIVE YearlyCosts(_, _, _, _)
YearlyCosts(totalInitial, totalAnnual, rate, last) ==
    IF last < 0 THEN <<>>
    ELSE LET before == YearlyCosts(totalInitial, totalAnnual, rate, last - 1)
             cumulative == IF before = <<>> THEN 0 ELSE before[Len(before)].cumulative
             cumulativeDiscounted ==
                 IF before = <<>> THEN R(0) ELSE before[Len(before)].cumulativeDiscounted
             total == YearTotal(totalInitial, totalAnnual, last)
             discounted == Discounted(total, rate, last)
         IN Append(before,
                   [ year |-> last,
                     initial |-> IF last = 0 THEN totalInitial ELSE 0,
                     annual |-> IF last = 0 THEN 0 ELSE totalAnnual,
                     total |-> total,
                     cumulative |-> cumulative + total,
                     discounted |-> discounted,
                     cumulativeDiscounted |-> RAdd(cumulativeDiscounted, discounted) ])

calculateOptionResultOf(option, years, discountRate) ==
    LET totalInitial == TotalAmount(option.initialCosts)
        totalAnnual == TotalAmount(option.annualCosts)
        rate == Rat(discountRate, 100)
        yearlyCosts == YearlyCosts(totalInitial, totalAnnual, rate, years)
    IN [ optionId |-> option.id,
         totalInitial |-> totalInitial,
         totalAnnual |-> totalAnnual,
         tco |-> IF yearlyCosts = <<>> THEN 0 ELSE yearlyCosts[Len(yearlyCosts)].cumulative,
         npv |-> IF yearlyCosts = <<>> THEN R(0)
                 ELSE yearlyCosts[Len(yearlyCosts)].cumulativeDiscounted,
         yearlyCosts |-> yearlyCosts ]

calculateAllResultsOf(p) ==
    [k \in DOMAIN p.options |->
        calculateOptionResultOf(p.options[k], p.years, p.discountRate)]

calculateAllResults == calculateAllResultsOf(tcoProject)

calculateTotalAnnualBenefitOf(p) ==
    SumSeq([i \in DOMAIN p.benefits |-> p.benefits[i].annualAmount])

calculateTotalAnnualBenefit == calculateTotalAnnualBenefitOf(tcoProject)

(* null, told apart from every year *)
Null == -1

(* Mutant of BreakEvenYear: year 0 eligible. *)
BreakEvenYearFromZero(yearlyCosts, annualBenefit) ==
    LET hit(i) == annualBenefit * yearlyCosts[i].year >= yearlyCosts[i].cumulative
    IN IF \E i \in DOMAIN yearlyCosts : hit(i)
       THEN yearlyCosts[CHOOSE i \in DOMAIN yearlyCosts :
                            hit(i) /\ \A j \in 1..(i - 1) : ~hit(j)].year
       ELSE Null

(* Mutant of BreakEvenYear: the loop without its break, the last covered
   year returned. *)
BreakEvenYearLast(yearlyCosts, annualBenefit) ==
    LET hit(i) == /\ annualBenefit * yearlyCosts[i].year >= yearlyCosts[i].cumulative
                  /\ yearlyCosts[i].year > 0
    IN IF \E i \in DOMAIN yearlyCosts : hit(i)
       THEN yearlyCosts[CHOOSE i \in DOMAIN yearlyCosts :
                            hit(i) /\ \A j \in (i + 1)..Len(yearlyCosts) : ~hit(j)].year
       ELSE Null

(* the break-even loop of calculateRoi: the year of the first entry, in
   schedule order, whose cumulative benefit covers its cumulative cost *)
BreakEvenYear(yearlyCosts, annualBenefit) ==
    LET hit(i) == /\ annualBenefit * yearlyCosts[i].year >= yearlyCosts[i].cumulative
                  /\ yearlyCosts[i].year > 0
    IN IF \E i \in DOMAIN yearlyCosts : hit(i)
       THEN yearlyCosts[CHOOSE i \in DOMAIN yearlyCosts :
                            hit(i) /\ \A j \in 1..(i - 1) : ~hit(j)].year
       ELSE Null

(* Mutant of RoiPercent: the tco > 0 guard dropped. *)
RoiPercentUnguarded(netBenefit, tco) == RMul(RDiv(R(netBenefit), R(tco)), R(100))

(* r.tco > 0 ? (netBenefit / r.tco) * 100 : 0 *)
RoiPercent(netBenefit, tco) ==
    IF tco > 0 THEN RMul(RDiv(R(netBenefit), R(tco)), R(100)) ELSE R(0)

RoiOf(r, annualBenefit, totalBenefit) ==
    [ optionId |-> r.optionId,
      tco |-> r.tco,
      totalBenefit |-> totalBenefit,
      netBenefit |-> totalBenefit - r.tco,
      roiPercent |-> RoiPercent(totalBenefit - r.tco, r.tco),
      breakEvenYear |-> BreakEvenYear(r.yearlyCosts, annualBenefit) ]

calculateRoiOf(p) ==
    LET results == calculateAllResultsOf(p)
        annualBenefit == calculateTotalAnnualBenefitOf(p)
        totalBenefit == annualBenefit * p.years
    IN [k \in DOMAIN results |-> RoiOf(results[k], annualBenefit, totalBenefit)]

calculateRoi == calculateRoiOf(tcoProject)

(* storage.ts, calculateComposite: the TCO value of one vendor's costs *)
compositeTco(costs, years) ==
    TotalAmount(costs.initialCosts) + TotalAmount(costs.annualCosts) * years

----------------------------------------------------------------------------
(* risk-types.ts and risk-state: the risk tool *)

(* Mutant of getRiskLevel: strict comparisons. *)
getRiskLevelStrict(score) ==
    IF score < 4 THEN "low"
    ELSE IF score < 9 THEN "medium"
    ELSE IF score < 15 THEN "high"
    ELSE "critical"

getRiskLevel(score) ==
    IF score <= 4 THEN "low"
    ELSE IF score <= 9 THEN "medium"
    ELSE IF score <= 15 THEN "high"
    ELSE "critical"

RiskLevels == <<"low", "medium", "high", "critical">>

(* levelRange(level): the two ends of the range the risk matrix legend shows *)
levelRange(level) ==
    CASE level = "low" -> <<1, 4>>
      [] level = "medium" -> <<5, 9>>
      [] level = "high" -> <<10, 15>>
      [] level = "critical" -> <<16, 25>>

riskLoadFromStorage(st) ==
    [ name |-> st.name,
      vendors |-> [i \in DOMAIN st.vendors |->
                     [id |-> st.vendors[i].id,
                      risks |-> MapGet(st.risk.vendors, st.vendors[i].id, <<>>)]] ]

riskPersist(st, p) ==
    LET withRisks == {i \in DOMAIN p.vendors : Len(p.vendors[i].risks) > 0}
        ids == {p.vendors[i].id : i \in withRisks}
    IN [st EXCEPT
          !.name = p.name,
          !.risk = [vendors |-> [id \in ids |->
                                   LET i == CHOOSE j \in withRisks : p.vendors[j].id = id
                                   IN p.vendors[i].risks]] ]

(* notify() of the risk tool: persist, then call the listeners *)
riskNotify(p) ==
    /\ riskProject' = p
    /\ stored' = riskPersist(stored, p)
    /\ UNCHANGED <<nwaProject, tcoProject, genCount, dashboard>>

(* the storage event handler of the risk tool, for the shared key *)
riskStorageEvent ==
    /\ riskProject' = riskLoadFromStorage(stored)
    /\ UNCHANGED <<stored, nwaProject, tcoProject, genCount, dashboard>>

RiskVendorIndex(vendorId) ==
    LET isV(v) == v.id = vendorId IN IndexOf(riskProject.vendors, isV)

(* Mutant of NewRisk: new and copied items start at 0/0. *)
NewRiskZero(id, name) == [id |-> id, name |-> name, probability |-> 0, impact |-> 0]

(* { id: genId(), name, probability: 3, impact: 3, mitigation: '' } *)
NewRisk(id, name) == [id |-> id, name |-> name, probability |-> 3, impact |-> 3]

addRisk(vendorId, name) ==
    LET v == RiskVendorIndex(vendorId)
    IN /\ v # 0
       /\ riskNotify([riskProject EXCEPT !.vendors[v].risks = Append(@, NewRisk(FreshId(@), name))])

(* updates is a partial record: a function on those of "name", "probability"
   and "impact" that are given *)
updateRisk(vendorId, riskId, updates) ==
    LET v == RiskVendorIndex(vendorId)
    IN /\ v # 0
       /\ LET r == ItemIndex(riskProject.vendors[v].risks, riskId)
              old == riskProject.vendors[v].risks[r]
          IN /\ r # 0
             /\ riskNotify([riskProject EXCEPT !.vendors[v].risks[r] =
                    [ old EXCEPT
                        !.name = IF "name" \in DOMAIN updates THEN updates["name"]
                                 ELSE old.name,
                        !.probability = IF "probability" \in DOMAIN updates
                                        THEN Max(1, Min(5, updates["probability"]))
                                        ELSE old.probability,
                        !.impact = IF "impact" \in DOMAIN updates
                                   THEN Max(1, Min(5, updates["impact"]))
                                   ELSE old.impact ]])

removeRisk(vendorId, riskId) ==
    LET v == RiskVendorIndex(vendorId)
        notId(r) == r.id # riskId
    IN /\ v # 0
       /\ riskNotify([riskProject EXCEPT !.vendors[v].risks = SelectSeq(@, notId)])

(* the loop of copyRisksToVendor from source item i on: an item is pushed to
   the target for every source item whose name the target did not have *)
RECURSIVE CopyInto(_, _, _, _)
CopyInto(target, source, existingNames, i) ==
    IF i > Len(source) THEN target
    ELSE CopyInto(IF source[i].name \in existingNames THEN target
                  ELSE Append(target, NewRisk(FreshId(target), source[i].name)),
                  source, existingNames, i + 1)

copyRisksToVendor(sourceVendorId, targetVendorId) ==
    LET s == RiskVendorIndex(sourceVendorId)
        t == RiskVendorIndex(targetVendorId)
    IN IF s = 0 \/ t = 0 THEN UNCHANGED vars
       ELSE LET target == riskProject.vendors[t].risks
                existingNames == {target[k].name : k \in DOMAIN target}
            IN riskNotify([riskProject EXCEPT !.vendors[t].risks =
                             CopyInto(target, riskProject.vendors[s].risks, existingNames, 1)])

(* the rows of calculateVendorRisk: every item with its score and level *)
RiskRows(risks) ==
    [i \in DOMAIN risks |->
        [ id |-> risks[i].id,
          probability |-> risks[i].probability,
          impact |-> risks[i].impact,
          score |-> risks[i].probability * risks[i].impact,
          level |-> getRiskLevel(risks[i].probability * risks[i].impact) ]]

(* Mutant of AvgScore: the length guard dropped. *)
AvgScoreUnguarded(totalScore, count) == RDiv(R(totalScore), R(count))

(* risks.length > 0 ? totalScore / risks.length : 0 *)
AvgScore(totalScore, count) ==
    IF count > 0 THEN RDiv(R(totalScore), R(count)) ELSE R(0)

(* risks.length > 0 ? Math.max(...risks.map((r) => r.score)) : 0 *)
MaxScore(rows) ==
    IF Len(rows) > 0
    THEN CHOOSE m \in {rows[i].score : i \in DOMAIN rows} :
             \A i \in DOMAIN rows : rows[i].score <= m
    ELSE 0

(* the tally of the rows per level *)
RiskCounts(rows) ==
    [level \in Range(RiskLevels) |-> Cardinality({i \in DOMAIN rows : rows[i].level = level})]

calculateVendorRiskOf(p, vendorId) ==
    LET isV(v) == v.id = vendorId
        k == IndexOf(p.vendors, isV)
    IN IF k = 0
       THEN [ vendorId |-> vendorId, risks |-> <<>>, totalScore |-> 0, avgScore |-> R(0),
              maxScore |-> 0, riskCounts |-> [level \in Range(RiskLevels) |-> 0] ]
       ELSE LET rows == RiskRows(p.vendors[k].risks)
                totalScore == SumSeq([i \in DOMAIN rows |-> rows[i].score])
            IN [ vendorId |-> vendorId,
                 risks |-> rows,
                 totalScore |-> totalScore,
                 avgScore |-> AvgScore(totalScore, Len(rows)),
                 maxScore |-> MaxScore(rows),
                 riskCounts |-> RiskCounts(rows) ]

calculateVendorRisk(vendorId) == calculateVendorRiskOf(riskProject, vendorId)

calculateAllVendorRisks ==
    [k \in DOMAIN riskProject.vendors |-> calculateVendorRisk(riskProject.vendors[k].id)]

(* pptx-export.ts: the risk summaries of the vendors that have risk items *)
calcRiskSummaries(st) ==
    LET hasRisks(v) == /\ v.id \in DOMAIN st.risk.vendors
                       /\ Len(st.risk.vendors[v.id]) > 0
        withRisks == SelectSeq(st.vendors, hasRisks)
    IN [k \in DOMAIN withRisks |->
          LET rows == RiskRows(st.risk.vendors[withRisks[k].id])
              totalScore == SumSeq([i \in DOMAIN rows |-> rows[i].score])
          IN [ vendorId |-> withRisks[k].id,
               riskCount |-> Len(rows),
               avgScore |-> IF Len(rows) > 0 THEN RDiv(R(totalScore), R(Len(rows))) ELSE R(0),
               maxScore |-> MaxScore(rows),
               totalScore |-> totalScore,
               counts |-> RiskCounts(rows),
               risks |-> rows ]]

(* one step of the sort: x goes behind the items that do not come after it *)
SortInsert(sorted, x) ==
    LET p == Cardinality({i \in DOMAIN sorted : RLeq(sorted[i].key, x.key)})
    IN SubSeq(sorted, 1, p) \o <<x>> \o SubSeq(sorted, p + 1, Len(sorted))

(* Array.prototype.sort with the comparator a.key - b.key: a stable sort,
   here by insertion of the first n items in their order *)
RECURSIVE SortByKey(_, _)
SortByKey(items, n) ==
    IF n = 0 THEN <<>> ELSE SortInsert(SortByKey(items, n - 1), items[n])

(* The risk tool's results view: the summary cards of renderResultsSection *)

(* [...results].filter((r) => r.risks.length > 0).sort by avgScore, ascending *)
sortedByAvg(results) ==
    LET hasRisks(r) == Len(r.risks) > 0
        with == SelectSeq(results, hasRisks)
        sorted == SortByKey([k \in DOMAIN with |-> [id |-> with[k].vendorId, key |-> with[k].avgScore]],
                            Len(with))
    IN [k \in DOMAIN sorted |-> sorted[k].id]

bestVendorId(results) ==
    IF Len(sortedByAvg(results)) > 0 THEN sortedByAvg(results)[1] ELSE Null

(* the card of result r carries the badge 'Geringstes Risiko' *)
isBest(results, r) == r.vendorId = bestVendorId(results) /\ Len(r.risks) > 0

----------------------------------------------------------------------------
(* storage.ts (dashboard): the ranking of calculateComposite and the page *)

(* null in a number-valued field *)
NoNumber == [n |-> 0, d |-> -1]

(* Mutant of tcoValues: every vendor with a cost record gets its total. *)
tcoValuesAnyTotal(st) ==
    LET ids == {st.vendors[j].id : j \in DOMAIN st.vendors}
        tcoOf(id) == compositeTco(st.tco.costs[id], st.tco.years)
    IN [id \in ids \cap DOMAIN st.tco.costs |-> R(tcoOf(id))]

(* tcoValues: the vendors with a cost record whose total is positive *)
tcoValues(st) ==
    LET ids == {st.vendors[j].id : j \in DOMAIN st.vendors}
        tcoOf(id) == compositeTco(st.tco.costs[id], st.tco.years)
    IN [id \in {i \in ids \cap DOMAIN st.tco.costs : tcoOf(i) > 0} |-> R(tcoOf(id))]

(* Mutant of riskAvgs: every vendor gets an average, 0 without risk items. *)
riskAvgsAllVendors(st) ==
    LET ids == {st.vendors[j].id : j \in DOMAIN st.vendors}
        risksOf(id) == MapGet(st.risk.vendors, id, <<>>)
    IN [id \in ids |->
          IF Len(risksOf(id)) > 0
          THEN RDiv(R(SumSeq([k \in DOMAIN risksOf(id) |->
                                risksOf(id)[k].probability * risksOf(id)[k].impact])),
                    R(Len(risksOf(id))))
          ELSE R(0)]

(* riskAvgs: the vendors with at least one risk item *)
riskAvgs(st) ==
    LET ids == {st.vendors[j].id : j \in DOMAIN st.vendors}
        risksOf(id) == st.risk.vendors[id]
    IN [id \in {i \in ids \cap DOMAIN st.risk.vendors : Len(risksOf(i)) > 0} |->
          RDiv(R(SumSeq([k \in DOMAIN risksOf(id) |->
                           risksOf(id)[k].probability * risksOf(id)[k].impact])),
               R(Len(risksOf(id))))]

(* composites.filter(has a value).sort(...): the vendor ids in rank order;
   sign is -1 for a descending and 1 for an ascending dimension *)
Ranked(st, values, sign) ==
    LET has(v) == v.id \in DOMAIN values
        with == SelectSeq(st.vendors, has)
        sorted == SortByKey([k \in DOMAIN with |->
                               [id |-> with[k].id, key |-> RMul(R(sign), values[with[k].id])]],
                            Len(with))
    IN [k \in DOMAIN sorted |-> sorted[k].id]

(* ranked.forEach((v, i) => v.rank = i + 1), null for the other vendors *)
RankIn(ranked, id) ==
    LET isV(x) == x = id
        k == IndexOf(ranked, isV)
    IN IF k = 0 THEN Null ELSE k

(* Mutant of Normalized: a single ranked vendor scored 0. *)
NormalizedSingleZero(n, rank) ==
    IF n > 1 THEN RMul(RDiv(R(n - rank), R(n - 1)), R(100)) ELSE R(0)

(* n > 1 ? ((n - rank) / (n - 1)) * 100 : 100 *)
Normalized(n, rank) ==
    IF n > 1 THEN RMul(RDiv(R(n - rank), R(n - 1)), R(100)) ELSE R(100)

(* Mutant of Applied: the weight of a dimension applied to every vendor. *)
AppliedAlways(rank, n, weight) ==
    IF rank # Null /\ n > 0
    THEN [score |-> RMul(Normalized(n, rank), R(weight)), appliedWeight |-> weight]
    ELSE [score |-> R(0), appliedWeight |-> weight]

(* one dimension's share of score and appliedWeight *)
Applied(rank, n, weight) ==
    IF rank # Null /\ n > 0
    THEN [score |-> RMul(Normalized(n, rank), R(weight)), appliedWeight |-> weight]
    ELSE [score |-> R(0), appliedWeight |-> 0]

(* Mutants of CompositeScore: the appliedWeight > 0 guard dropped, and the
   weights read as percentages. *)
CompositeScoreUnguarded(nwa, tco, risk) ==
    RDiv(RAdd(RAdd(nwa.score, tco.score), risk.score),
         R(nwa.appliedWeight + tco.appliedWeight + risk.appliedWeight))

CompositeScorePerHundred(nwa, tco, risk) ==
    RDiv(RAdd(RAdd(nwa.score, tco.score), risk.score), R(100))

(* appliedWeight > 0 ? score / appliedWeight : 0 *)
CompositeScore(nwa, tco, risk) ==
    LET score == RAdd(RAdd(nwa.score, tco.score), risk.score)
        appliedWeight == nwa.appliedWeight + tco.appliedWeight + risk.appliedWeight
    IN IF appliedWeight > 0 THEN RDiv(score, R(appliedWeight)) ELSE R(0)

(* the composites before the final sort; key is the negated compositeScore *)
CompositeRows(st, utility, costs, risks, nwaRanked, tcoRanked, riskRanked, w) ==
    [j \in DOMAIN st.vendors |->
        [ id |-> st.vendors[j].id,
          nwaScore |-> MapGet(utility, st.vendors[j].id, NoNumber),
          nwaRank |-> RankIn(nwaRanked, st.vendors[j].id),
          tco |-> MapGet(costs, st.vendors[j].id, NoNumber),
          tcoRank |-> RankIn(tcoRanked, st.vendors[j].id),
          riskAvg |-> MapGet(risks, st.vendors[j].id, NoNumber),
          riskRank |-> RankIn(riskRanked, st.vendors[j].id),
          key |-> RMul(R(-1),
                       CompositeScore(
                           Applied(RankIn(nwaRanked, st.vendors[j].id), Len(nwaRanked), w.weightNwa),
                           Applied(RankIn(tcoRanked, st.vendors[j].id), Len(tcoRanked), w.weightTco),
                           Applied(RankIn(riskRanked, st.vendors[j].id), Len(riskRanked),
                                   w.weightRisk))) ]]

(* composites.sort by compositeScore, descending, and the composite ranks *)
CompositeRanked(sorted) ==
    [k \in DOMAIN sorted |->
        [ id |-> sorted[k].id,
          nwaScore |-> sorted[k].nwaScore, nwaRank |-> sorted[k].nwaRank,
          tco |-> sorted[k].tco, tcoRank |-> sorted[k].tcoRank,
          riskAvg |-> sorted[k].riskAvg, riskRank |-> sorted[k].riskRank,
          compositeScore |-> RMul(R(-1), sorted[k].key),
          compositeRank |-> k ]]

(* the three value maps ranked and blended *)
CompositeOver(st, utility, costs, risks, w) ==
    CompositeRanked(
        SortByKey(CompositeRows(st, utility, costs, risks, Ranked(st, utility, -1),
                                Ranked(st, costs, 1), Ranked(st, risks, 1), w),
                  Len(st.vendors)))

(* the ranking from the utility values: shared by calculateComposite and the
   export's calcComposite, which differ in the utility values only *)
CompositeFrom(st, utility, w) == CompositeOver(st, utility, tcoValues(st), riskAvgs(st), w)

calculateCompositeOf(st, w) == CompositeFrom(st, nwaScores(st), w)

(* pptx-export.ts: calcComposite, with the utility totals of calcNwaWeights *)
calcComposite(st, wNwa, wTco, wRisk) ==
    LET totals == calcNwaVendorTotals(st)
        ids == IF Len(st.nwa.criteria) > 0 THEN DOMAIN totals ELSE {}
        utility == [id \in {totals[j].vendorId : j \in ids} |->
                      totals[CHOOSE j \in ids : totals[j].vendorId = id].total]
    IN CompositeFrom(st, utility, [weightNwa |-> wNwa, weightTco |-> wTco, weightRisk |-> wRisk])

Weights == [ weightNwa |-> dashboard.weightNwa,
             weightTco |-> dashboard.weightTco,
             weightRisk |-> dashboard.weightRisk ]

calculateComposite == calculateCompositeOf(stored, Weights)

(* render() with the given weights: the ranking section shows
   calculateComposite(loadStored()) *)
render(w) ==
    /\ dashboard' = [ weightNwa |-> w.weightNwa, weightTco |-> w.weightTco,
                      weightRisk |-> w.weightRisk,
                      ranking |-> calculateCompositeOf(stored, w) ]
    /\ UNCHANGED <<stored, nwaProject, tcoProject, riskProject, genCount>>

(* the slider callbacks *)
setWeightNwa(v) == render([Weights EXCEPT !.weightNwa = v])

setWeightTco(v) == render([Weights EXCEPT !.weightTco = v])

setWeightRisk(v) == render([Weights EXCEPT !.weightRisk = v])

(* the storage event handler of the dashboard, for the shared key *)
dashboardStorageEvent == render(Weights)

(* the dashboard page after its module has run: the default weights and the
   first render() *)
DashboardOver(st) ==
    LET w == [weightNwa |-> 40, weightTco |-> 40, weightRisk |-> 20]
    IN [ weightNwa |-> w.weightNwa, weightTco |-> w.weightTco, weightRisk |-> w.weightRisk,
         ranking |-> calculateCompositeOf(st, w) ]

(* state.ts: getCriteriaSortedByWeight and the arrays a calculation touches *)

(* Mutant of SpreadLeaves: the array itself sorted, as by array.sort(...). *)
SortInPlaceLeaves(array, sorted) == sorted

(* [...array].sort(...) sorts the copy the spread makes: the array itself
   after the call, given the sorted copy *)
SpreadLeaves(array, sorted) == array

(* [...project.criteria].sort by absoluteWeights, descending *)
getCriteriaSortedByWeightOf(p) ==
    LET absoluteWeights == calculateWeightsOf(p.criteria, p.pairwise).absoluteWeights
        sorted == SortByKey([i \in DOMAIN p.criteria |->
                               [id |-> p.criteria[i],
                                key |-> R(-MapGet(absoluteWeights, p.criteria[i], 0))]],
                            Len(p.criteria))
    IN [i \in DOMAIN sorted |-> sorted[i].id]

getCriteriaSortedByWeight == getCriteriaSortedByWeightOf(nwaProject)

----------------------------------------------------------------------------
(* Specifications *)

Init ==
    /\ stored = createDefault
    /\ nwaProject = loadFromStorage(createDefault)
    /\ tcoProject = createEmptyProject
    /\ riskProject = riskLoadFromStorage(createDefault)
    /\ genCount = [criterion |-> 0, vendor |-> 0]
    /\ dashboard = DashboardOver(createDefault)

Criteria == Range(nwaProject.criteria)

AddCriterion ==
    /\ genCount.criterion < MaxCriteria
    /\ addCriterion

RemoveCriterion == \E id \in Criteria : removeCriterion(id)

SetPairwise ==
    \E id1 \in Criteria : \E id2 \in Criteria \ {id1}, value \in JudgmentInputs :
        /\ <<id1, id2>> \in DOMAIN nwaProject.pairwise
           \/ Cardinality(DOMAIN nwaProject.pairwise) < MaxJudgments
        /\ setPairwise(id1, id2, value)

(* the editable cell (i, j), i < j, of the pairwise table (main.ts) *)
SetPairwiseCell ==
    \E i \in DOMAIN nwaProject.criteria : \E j \in DOMAIN nwaProject.criteria, value \in JudgmentInputs :
        /\ i < j
        /\ setPairwise(nwaProject.criteria[i], nwaProject.criteria[j], value)

AddScoredCriterion ==
    /\ genCount.criterion < MaxScoredCriteria
    /\ addCriterion

VendorIds == {nwaProject.vendors[j].id : j \in DOMAIN nwaProject.vendors}

ScoreCount == SumSeq([j \in DOMAIN nwaProject.vendors |-> Cardinality(DOMAIN nwaProject.vendors[j].scores)])

VendorById(id) == nwaProject.vendors[CHOOSE j \in DOMAIN nwaProject.vendors : nwaProject.vendors[j].id = id]

AddVendor ==
    /\ genCount.vendor < MaxVendors
    /\ addVendor

RemoveVendor == \E id \in VendorIds : removeVendor(id)

SetVendorScore ==
    \E vendorId \in VendorIds, criterionId \in Criteria, score \in ScoreInputs :
        /\ criterionId \in DOMAIN VendorById(vendorId).scores \/ ScoreCount < MaxScores
        /\ setVendorScore(vendorId, criterionId, score)

NextNwa ==
    \/ AddScoredCriterion
    \/ RemoveCriterion
    \/ SetPairwiseCell
    \/ AddVendor
    \/ SetVendorScore

SpecNwa == Init /\ [][NextNwa]_vars

OptionIds == {tcoProject.options[k].id : k \in DOMAIN tcoProject.options}

OptionById(id) == tcoProject.options[OptionIndex(id)]

CostItemCount ==
    SumSeq([k \in DOMAIN tcoProject.options |->
              Len(tcoProject.options[k].initialCosts) + Len(tcoProject.options[k].annualCosts)])

SetYears == \E years \in YearInputs : setYears(years)

SetDiscountRate == \E rate \in RateInputs : setDiscountRate(rate)

AddOption ==
    /\ Len(tcoProject.options) < MaxOptions
    /\ addOption

AddInitialCost ==
    \E optionId \in OptionIds :
        /\ CostItemCount < MaxCostItems
        /\ addInitialCost(optionId)

UpdateInitialCost ==
    \E optionId \in OptionIds :
        \E i \in DOMAIN OptionById(optionId).initialCosts, amount \in AmountInputs :
            updateInitialCost(optionId, OptionById(optionId).initialCosts[i].id, amount)

AddAnnualCost ==
    \E optionId \in OptionIds :
        /\ CostItemCount < MaxCostItems
        /\ addAnnualCost(optionId)

UpdateAnnualCost ==
    \E optionId \in OptionIds :
        \E i \in DOMAIN OptionById(optionId).annualCosts, amount \in AmountInputs :
            updateAnnualCost(optionId, OptionById(optionId).annualCosts[i].id, amount)

AddBenefit ==
    /\ Len(tcoProject.benefits) < MaxBenefits
    /\ addBenefit

UpdateBenefit ==
    \E i \in DOMAIN tcoProject.benefits, annualAmount \in BenefitInputs :
        updateBenefit(tcoProject.benefits[i].id, annualAmount)

(* the import of an export of the project whose horizon was edited to 0 *)
ImportProject == tcoImportProject([tcoProject EXCEPT !.years = 0])

NextTco ==
    \/ SetYears
    \/ SetDiscountRate
    \/ AddOption
    \/ AddInitialCost
    \/ UpdateInitialCost
    \/ AddAnnualCost
    \/ UpdateAnnualCost
    \/ AddBenefit
    \/ UpdateBenefit
    \/ ImportProject

SpecTco == Init /\ [][NextTco]_vars

RiskVendorIds == {riskProject.vendors[i].id : i \in DOMAIN riskProject.vendors}

RiskVendorById(id) == riskProject.vendors[RiskVendorIndex(id)]

RiskCount == SumSeq([i \in DOMAIN riskProject.vendors |-> Len(riskProject.vendors[i].risks)])

RiskStorageEvent == riskStorageEvent

AddRisk ==
    \E vendorId \in RiskVendorIds :
        /\ RiskCount < MaxRisks
        /\ addRisk(vendorId, "Risiko")

UpdateRiskProbability ==
    \E vendorId \in RiskVendorIds :
        \E i \in DOMAIN RiskVendorById(vendorId).risks, probability \in ProbabilityInputs :
            updateRisk(vendorId, RiskVendorById(vendorId).risks[i].id,
                       [f \in {"probability"} |-> probability])

UpdateRiskImpact ==
    \E vendorId \in RiskVendorIds :
        \E i \in DOMAIN RiskVendorById(vendorId).risks, impact \in ImpactInputs :
            updateRisk(vendorId, RiskVendorById(vendorId).risks[i].id,
                       [f \in {"impact"} |-> impact])

NextRisk ==
    \/ AddVendor
    \/ RiskStorageEvent
    \/ AddRisk
    \/ UpdateRiskProbability
    \/ UpdateRiskImpact

SpecRisk == Init /\ [][NextRisk]_vars

(* The stored records the dashboard is opened over: vendors 1..n, two criteria
   of equal weight or none, and per vendor a score on criterion 1 or no
   scores (u), a cost record with one initial cost or none (t), and a list of
   risk items or none (r). *)
RiskNine == << [id |-> 1, name |-> "Risiko", probability |-> 3, impact |-> 3] >>

RiskSeven ==
    << [id |-> 1, name |-> "Risiko", probability |-> 1, impact |-> 4],
       [id |-> 2, name |-> "Ausfall", probability |-> 2, impact |-> 5] >>

VendorProfiles ==
    { [u |-> Null, t |-> Null, r |-> <<>>],
      [u |-> 10,   t |-> Null, r |-> <<>>],
      [u |-> 4,    t |-> Null, r |-> <<>>],
      [u |-> Null, t |-> 5,    r |-> <<>>],
      [u |-> Null, t |-> 10,   r |-> <<>>],
      [u |-> Null, t |-> Null, r |-> RiskNine],
      [u |-> 10,   t |-> 10,   r |-> RiskNine],
      [u |-> 4,    t |-> 5,    r |-> RiskSeven],
      [u |-> 10,   t |-> 5,    r |-> <<>>] }

StoredOver(n, criteria, v) ==
    [ name |-> "Neues Projekt",
      vendors |-> [j \in 1..n |-> [id |-> j]],
      nwa |-> [ criteria |-> criteria,
                pairwise |-> EmptyMap,
                scores |-> [id \in {j \in 1..n : v[j].u # Null} |-> MapPut(EmptyMap, 1, v[id].u)] ],
      tco |-> [ years |-> 5,
                discountRate |-> 5,
                costs |-> [id \in {j \in 1..n : v[j].t # Null} |->
                             [ initialCosts |-> << [id |-> 1, amount |-> v[id].t] >>,
                               annualCosts |-> <<>> ]],
                benefits |-> <<>> ],
      risk |-> [vendors |-> [id \in {j \in 1..n : v[j].r # <<>>} |-> v[id].r]] ]

InitComposite ==
    \E n \in 0..MaxRankedVendors :
        \E v \in [1..n -> VendorProfiles], criteria \in {<<>>, <<1, 2>>} :
            /\ criteria = <<>> => \A j \in 1..n : v[j].u = Null
            /\ stored = StoredOver(n, criteria, v)
            /\ nwaProject = loadFromStorage(stored)
            /\ tcoProject = createEmptyProject
            /\ riskProject = riskLoadFromStorage(stored)
            /\ genCount = [criterion |-> Len(criteria), vendor |-> n]
            /\ dashboard = DashboardOver(stored)

SetWeightNwa == \E v \in WeightInputs : setWeightNwa(v)

SetWeightTco == \E v \in WeightInputs : setWeightTco(v)

SetWeightRisk == \E v \in WeightInputs : setWeightRisk(v)

NextComposite ==
    \/ SetWeightNwa
    \/ SetWeightTco
    \/ SetWeightRisk

SpecComposite == InitComposite /\ [][NextComposite]_vars

(* The calculation functions called by the views. Each is an operation of its
   own: the functions other than getCriteriaSortedByWeight assign to nothing
   outside their local variables and sort no array of the project. *)
CalculateWeights == UNCHANGED vars

CalculateResults == UNCHANGED vars

GetVendorTotals == UNCHANGED vars

(* the sort works on the spread copy of project.criteria *)
GetCriteriaSortedByWeight ==
    /\ nwaProject' = [nwaProject EXCEPT !.criteria = SpreadLeaves(@, getCriteriaSortedByWeight)]
    /\ UNCHANGED <<stored, tcoProject, riskProject, genCount, dashboard>>

CalculateVendorRisk == \E vendorId \in RiskVendorIds : UNCHANGED vars

CalculateOptionResult == \E k \in DOMAIN tcoProject.options : UNCHANGED vars

CalculateRoi == UNCHANGED vars

CalculateComposite == UNCHANGED vars

NextCalls ==
    \/ AddScoredCriterion
    \/ SetPairwiseCell
    \/ AddVendor
    \/ RiskStorageEvent
    \/ AddRisk
    \/ AddOption
    \/ CalculateWeights
    \/ CalculateResults
    \/ GetVendorTotals
    \/ GetCriteriaSortedByWeight
    \/ CalculateVendorRisk
    \/ CalculateOptionResult
    \/ CalculateRoi
    \/ CalculateComposite

SpecCalls == Init /\ [][NextCalls]_vars

(* The project name field and the export button followed by the import of
   the exported file *)
NameInputs == {"", "Projekt A"}

SetProjectName == \E name \in NameInputs : setProjectName(name)

ImportExported == importProject(exportProject)

NextRoundTrip ==
    \/ AddScoredCriterion
    \/ SetPairwiseCell
    \/ AddVendor
    \/ SetVendorScore
    \/ SetProjectName
    \/ ImportExported

SpecRoundTrip == Init /\ [][NextRoundTrip]_vars

(* The NWA tool and the risk tool opened over a stored project that has cost
   records and risk lists, each writing its own part *)
RemoveRisk ==
    \E vendorId \in RiskVendorIds :
        \E i \in DOMAIN RiskVendorById(vendorId).risks :
            removeRisk(vendorId, RiskVendorById(vendorId).risks[i].id)

NwaWrite ==
    \/ RemoveVendor
    \/ RemoveCriterion
    \/ AddVendor

RiskWrite == RemoveRisk

NextWrites == NwaWrite \/ RiskWrite

(* the vendors of the stored project have data in every domain or in none *)
InitWrites ==
    /\ InitComposite
    /\ Len(stored.nwa.criteria) > 0
    /\ \A j \in DOMAIN stored.vendors :
         LET id == stored.vendors[j].id
         IN /\ (id \in DOMAIN stored.nwa.scores) = (id \in DOMAIN stored.tco.costs)
            /\ (id \in DOMAIN stored.risk.vendors) = (id \in DOMAIN stored.tco.costs)

SpecWrites == InitWrites /\ [][NextWrites]_vars

(* The two settings fields of the TCO tool with arguments inside and outside
   of the ranges; 15 years and a rate of 0 are reached by clamping only *)
YearArguments == (-2..14) \cup {16, 40}

RateArguments == {-10, -1, 1, 5, 10, 25, 49, 50, 51, 60}

SetYearsTo == \E years \in YearArguments : setYears(years)

SetDiscountRateTo == \E rate \in RateArguments : setDiscountRate(rate)

NextSettings == SetYearsTo \/ SetDiscountRateTo

SpecSettings == Init /\ [][NextSettings]_vars

(* The risk tool with named items: the chips and the input of the add row,
   the copy button, the remove button, and updates out of the range 1..5.
   The list-local identifiers stay within MaxRiskId. *)
RiskNames == {"Lieferverzug", "Datenschutz"}

OutOfRange == { [f \in {"probability"} |-> 0], [f \in {"impact"} |-> 6] }

AddNamedRisk ==
    \E vendorId \in RiskVendorIds, name \in RiskNames :
        /\ RiskCount < MaxRisks
        /\ FreshId(RiskVendorById(vendorId).risks) <= MaxRiskId
        /\ addRisk(vendorId, name)

UpdateRiskOutOfRange ==
    \E vendorId \in RiskVendorIds, updates \in OutOfRange :
        \E i \in DOMAIN RiskVendorById(vendorId).risks :
            updateRisk(vendorId, RiskVendorById(vendorId).risks[i].id, updates)

CopyRisksToVendor ==
    \E sourceVendorId \in RiskVendorIds, targetVendorId \in RiskVendorIds :
        /\ sourceVendorId # targetVendorId
        /\ RiskCount + Len(RiskVendorById(sourceVendorId).risks) <= MaxRisks
        /\ FreshId(RiskVendorById(targetVendorId).risks)
             + Len(RiskVendorById(sourceVendorId).risks) <= MaxRiskId + 1
        /\ copyRisksToVendor(sourceVendorId, targetVendorId)

NextRiskItems ==
    \/ AddVendor
    \/ RiskStorageEvent
    \/ AddNamedRisk
    \/ UpdateRiskOutOfRange
    \/ RemoveRisk
    \/ CopyRisksToVendor

SpecRiskItems == Init /\ [][NextRiskItems]_vars

(* Cross-tab sync. The storage event of a key reaches the listener of every
   open page; the pages are the NWA tool, a second tab of the NWA tool that
   is in step with the store when it writes, the risk tool and the
   dashboard. *)
STORAGE_KEY == "honeyBee_project"

StorageKeys == {STORAGE_KEY, "theme"}

(* state.ts 62-67: the listener of the NWA tool *)
onStorage(key) ==
    IF key = STORAGE_KEY
    THEN /\ nwaProject' = loadFromStorage(stored)
         /\ UNCHANGED <<stored, tcoProject, riskProject, genCount, dashboard>>
    ELSE UNCHANGED vars

(* Mutant of riskOnStorage: the key of the event is not looked at. *)
riskOnStorageAnyKey(key) == riskStorageEvent

(* state.ts 307-312: the listener of the risk tool *)
riskOnStorage(key) == IF key = STORAGE_KEY THEN riskStorageEvent ELSE UNCHANGED vars

(* storage.ts 90-92: the listener of the dashboard *)
dashboardOnStorage(key) == IF key = STORAGE_KEY THEN dashboardStorageEvent ELSE UNCHANGED vars

OnStorage == \E key \in StorageKeys : onStorage(key)

RiskOnStorage == \E key \in StorageKeys : riskOnStorage(key)

DashboardOnStorage == \E key \in StorageKeys : dashboardOnStorage(key)

(* addVendor in a second tab of the NWA tool whose project is the stored one *)
OtherTabAddVendor ==
    /\ genCount.vendor < MaxVendors
    /\ genCount' = [genCount EXCEPT !.vendor = @ + 1]
    /\ stored' = persist(stored, [loadFromStorage(stored) EXCEPT
                                    !.vendors = Append(@, [id |-> genCount.vendor + 1,
                                                           scores |-> EmptyMap])])
    /\ UNCHANGED <<nwaProject, tcoProject, riskProject, dashboard>>

NextTabs ==
    \/ AddVendor
    \/ OtherTabAddVendor
    \/ AddRisk
    \/ OnStorage
    \/ RiskOnStorage
    \/ DashboardOnStorage

SpecTabs == Init /\ [][NextTabs]_vars

(* The dashboard over stored records whose vendors differ in their cost
   records: none, an empty one, totals of zero, below zero and above zero,
   from initial and from annual items. Every vendor has a utility score. *)
NoCosts == [initialCosts |-> <<-1>>, annualCosts |-> <<-1>>]

CostItems(amounts) == [k \in DOMAIN amounts |-> [id |-> k, amount |-> amounts[k]]]

CostProfiles ==
    { [u |-> 10, c |-> NoCosts],
      [u |-> 4,  c |-> [initialCosts |-> <<>>, annualCosts |-> <<>>]],
      [u |-> 10, c |-> [initialCosts |-> <<0>>, annualCosts |-> <<>>]],
      [u |-> 4,  c |-> [initialCosts |-> <<5>>, annualCosts |-> <<>>]],
      [u |-> 10, c |-> [initialCosts |-> <<>>, annualCosts |-> <<2>>]],
      [u |-> 4,  c |-> [initialCosts |-> <<5>>, annualCosts |-> <<-1>>]],
      [u |-> 10, c |-> [initialCosts |-> <<5, 3>>, annualCosts |-> <<1>>]],
      [u |-> 4,  c |-> [initialCosts |-> <<-3>>, annualCosts |-> <<>>]] }

StoredCosts(n, v) ==
    [ name |-> "Neues Projekt",
      vendors |-> [j \in 1..n |-> [id |-> j]],
      nwa |-> [ criteria |-> <<1, 2>>,
                pairwise |-> EmptyMap,
                scores |-> [id \in 1..n |-> MapPut(EmptyMap, 1, v[id].u)] ],
      tco |-> [ years |-> 5,
                discountRate |-> 5,
                costs |-> [id \in {j \in 1..n : v[j].c # NoCosts} |->
                             [ initialCosts |-> CostItems(v[id].c.initialCosts),
                               annualCosts |-> CostItems(v[id].c.annualCosts) ]],
                benefits |-> <<>> ],
      risk |-> [vendors |-> EmptyMap] ]

InitCosts ==
    \E n \in 0..MaxRankedVendors :
        \E v \in [1..n -> CostProfiles] :
            /\ stored = StoredCosts(n, v)
            /\ nwaProject = loadFromStorage(stored)
            /\ tcoProject = createEmptyProject
            /\ riskProject = riskLoadFromStorage(stored)
            /\ genCount = [criterion |-> 2, vendor |-> n]
            /\ dashboard = DashboardOver(stored)

SpecCosts == InitCosts /\ [][NextComposite]_vars

(* The NWA tool with setVendorScore called for any criterion id handed out so
   far, the function looking up the vendor only. *)
CriterionIdsSoFar == 1..genCount.criterion

SetAnyVendorScore ==
    \E vendorId \in VendorIds, criterionId \in CriterionIdsSoFar :
        /\ criterionId \in DOMAIN VendorById(vendorId).scores \/ ScoreCount <= MaxScores
        /\ setVendorScore(vendorId, criterionId, 4)

NextReferences ==
    \/ AddScoredCriterion
    \/ RemoveCriterion
    \/ SetPairwiseCell
    \/ AddVendor
    \/ SetAnyVendorScore

SpecReferences == Init /\ [][NextReferences]_vars

(* calculateRoi over projects of one option with one initial item, one
   annual item and one benefit *)
InitialAmounts == {-5, 0, 3, 10}

AnnualAmounts == {-2, 0, 2, 6}

BenefitAmounts == {0, 3, 5}

Horizons == {1, 3, 5}

InitBreakEven ==
    \E initial \in InitialAmounts, annual \in AnnualAmounts,
       annualAmount \in BenefitAmounts, years \in Horizons :
        /\ tcoProject = [ name |-> "Neues TCO-Projekt", years |-> years, discountRate |-> 0,
                          options |-> << [ id |-> 1,
                                           initialCosts |-> << [id |-> 1, amount |-> initial] >>,
                                           annualCosts |-> << [id |-> 1, amount |-> annual] >> ] >>,
                          benefits |-> << [id |-> 1, annualAmount |-> annualAmount] >> ]
        /\ stored = createDefault
        /\ nwaProject = loadFromStorage(createDefault)
        /\ riskProject = riskLoadFromStorage(createDefault)
        /\ genCount = [criterion |-> 0, vendor |-> 0]
        /\ dashboard = DashboardOver(createDefault)

NextBreakEven == CalculateOptionResult \/ CalculateRoi

SpecBreakEven == InitBreakEven /\ [][NextBreakEven]_vars

(* The import buttons of the two tools with project files that are whole,
   that have no name or an empty one, and that lack an array or hold an
   object in its place. *)
Lacking(json, key) == JsonObject([k \in DOMAIN json.members \ {key} |-> json.members[k]])

With(json, key, value) == JsonObject(MapPut(json.members, key, value))

NwaFile ==
    stringify([ name |-> "Import", criteria |-> <<8, 9>>,
                pairwise |-> MapPut(EmptyMap, <<8, 9>>, 0),
                vendors |-> << [id |-> 9, scores |-> MapPut(EmptyMap, 8, 4)] >> ])

TcoFile ==
    JsonObject(
      [ name |-> JsonString("Import"), years |-> JsonNumber(3), discountRate |-> JsonNumber(0),
        options |-> JsonArray(<< JsonObject([ id |-> JsonNumber(9),
                                             initialCosts |-> JsonArray(<<>>),
                                             annualCosts |-> JsonArray(<<>>) ]) >>),
        benefits |-> JsonArray(<<>>) ])

NwaFiles ==
    { NwaFile, Lacking(NwaFile, "name"), With(NwaFile, "name", JsonString("")),
      Lacking(NwaFile, "criteria"), Lacking(NwaFile, "vendors"),
      With(NwaFile, "vendors", JsonObject(EmptyMap)), JsonString("Import") }

TcoFiles ==
    { TcoFile, Lacking(TcoFile, "name"), With(TcoFile, "name", JsonString("")),
      Lacking(TcoFile, "options"), Lacking(TcoFile, "benefits"),
      With(TcoFile, "benefits", JsonObject(EmptyMap)), JsonString("Import") }

ImportFile == \E json \in NwaFiles : importProject(json)

TcoImportFile == \E json \in TcoFiles : tcoImportJson(json)

NextImports ==
    \/ AddScoredCriterion
    \/ AddVendor
    \/ AddOption
    \/ AddBenefit
    \/ ImportFile
    \/ TcoImportFile

SpecImports == Init /\ [][NextImports]_vars

NextWeights == AddCriterion \/ RemoveCriterion \/ SetPairwise

SpecWeights == Init /\ [][NextWeights]_vars

----------------------------------------------------------------------------
(* Pairwise Weight Resolver *)

Stored(pw, a, b) == <<a, b>> \in DOMAIN pw

(* The absolute weight of c, counted by kind of judgment instead of summed
   criterion by criterion: a direct 0 counts 2, a direct 1 counts 1, a direct
   2 counts 0; a mirror-only value counts itself; no judgment counts 1. *)
CountedWeight(pw, ids, c) ==
    LET others == ids \ {c}
        direct(v) == {o \in others : Stored(pw, c, o) /\ pw[<<c, o>>] = v}
        mirror(v) == {o \in others : ~Stored(pw, c, o) /\ Stored(pw, o, c) /\ pw[<<o, c>>] = v}
        none == {o \in others : ~Stored(pw, c, o) /\ ~Stored(pw, o, c)}
    IN 2 * Cardinality(direct(0)) + Cardinality(direct(1))
       + Cardinality(mirror(1)) + 2 * Cardinality(mirror(2))
       + Cardinality(none)

Without(criteria, id) == LET notId(c) == c # id IN SelectSeq(criteria, notId)

(* What `other` adds to the absolute weight of c: the weight of c with and
   without `other` in the criteria list. *)
Share(pw, criteria, c, other) ==
    InnerSum(criteria, pw, c, 1) - InnerSum(Without(criteria, other), pw, c, 1)

\* C1: calculateWeights and calcNwaWeights return a weight map with an entry
\* for every criterion, whose absolute weight is the sum over the other
\* criteria of 2 - judgment(c,o) for a stored 'c:o', else judgment(o,c) for a
\* stored 'o:c', else 1; a 0 stored on 'c:o' adds 2 to c, and adds 0 to o when
\* 'o:c' is not stored as well.
C1_AbsoluteWeights ==
    LET w == calculateWeights
        x == calcNwaWeights(stored)
        pw == nwaProject.pairwise
    IN /\ DOMAIN w.absoluteWeights = Criteria
       /\ DOMAIN w.relativeWeights = Criteria
       /\ DOMAIN x.absoluteWeights = Range(stored.nwa.criteria)
       /\ DOMAIN x.relativeWeights = Range(stored.nwa.criteria)
       /\ \A c \in Criteria :
             /\ w.absoluteWeights[c] = CountedWeight(pw, Criteria, c)
             /\ x.absoluteWeights[c] = CountedWeight(stored.nwa.pairwise, Criteria, c)
       /\ \A c \in Criteria : \A o \in Criteria \ {c} :
             (Stored(pw, c, o) /\ pw[<<c, o>>] = 0) =>
                 /\ Share(pw, nwaProject.criteria, c, o) = 2
                 /\ ~Stored(pw, o, c) => Share(pw, nwaProject.criteria, o, c) = 0

\* C1 witness: three criteria; one pair stored as 'c:o' = 0 in one direction
\* only, one pair read through its mirror key with a value that is not 1, and
\* one pair with no judgment.
C1_Witness ==
    LET pw == nwaProject.pairwise
    IN /\ Len(nwaProject.criteria) = 3
       /\ \E c \in Criteria : \E o \in Criteria \ {c} :
             /\ Stored(pw, c, o) /\ pw[<<c, o>>] = 0 /\ ~Stored(pw, o, c)
             /\ \E m \in Criteria \ {c, o} :
                   /\ Stored(pw, m, o) /\ pw[<<m, o>>] = 2 /\ ~Stored(pw, o, m)
                   /\ ~Stored(pw, c, m) /\ ~Stored(pw, m, c)
                   /\ calculateWeights.absoluteWeights[c] = 3
                   /\ calculateWeights.absoluteWeights[o] = 2
                   /\ calculateWeights.absoluteWeights[m] = 1

\* C2: the relative weights sum to 1 whenever the total absolute weight is
\* greater than 0; they are all 0 when the total is 0, which is the case with
\* zero criteria or one criterion; no relative weight is the result of a
\* division by zero.
C2_RelativeWeightsSum ==
    LET w == calculateWeights
        rel == [i \in DOMAIN nwaProject.criteria |-> w.relativeWeights[nwaProject.criteria[i]]]
    IN /\ \A c \in Criteria : IsFinite(w.relativeWeights[c])
       /\ w.totalAbsolute > 0 => RSumSeq(rel) = R(1)
       /\ w.totalAbsolute <= 0 => \A c \in Criteria : w.relativeWeights[c] = R(0)
       /\ Len(nwaProject.criteria) <= 1 =>
             /\ w.totalAbsolute = 0
             /\ \A c \in Criteria : w.relativeWeights[c] = R(0)

\* C2 witness: three criteria with three different relative weights and a
\* positive total.
C2_Witness ==
    LET w == calculateWeights
    IN /\ Len(nwaProject.criteria) = 3
       /\ w.totalAbsolute > 0
       /\ Cardinality({w.relativeWeights[c] : c \in Criteria}) = 3

(* The pairwise map with the judgment stored on 'a:b' stored on 'b:a' instead,
   as 2 - value. *)
Mirrored(pw, a, b) == MapPut(MapDel(pw, <<a, b>>), <<b, a>>, 2 - pw[<<a, b>>])

\* C3: a pair stored as 'A:B' = v gives every criterion the same relative
\* (and absolute) weight as the same pair stored as 'B:A' = 2 - v, all other
\* criteria and judgments being the same.
C3_StorageDirectionSymmetry ==
    LET pw == nwaProject.pairwise
    IN \A a \in Criteria : \A b \in Criteria \ {a} :
          (Stored(pw, a, b) /\ ~Stored(pw, b, a)) =>
              LET w1 == calculateWeightsOf(nwaProject.criteria, pw)
                  w2 == calculateWeightsOf(nwaProject.criteria, Mirrored(pw, a, b))
              IN /\ w1.relativeWeights = w2.relativeWeights
                 /\ w1.absoluteWeights = w2.absoluteWeights

\* C3 witness: 'A:B' = 0 stored in one direction only, among three criteria,
\* with A weighted above B.
C3_Witness ==
    LET pw == nwaProject.pairwise
        w == calculateWeights
    IN /\ Len(nwaProject.criteria) = 3
       /\ \E a \in Criteria : \E b \in Criteria \ {a} :
             /\ Stored(pw, a, b) /\ ~Stored(pw, b, a) /\ pw[<<a, b>>] = 0
             /\ RLt(w.relativeWeights[b], w.relativeWeights[a])

----------------------------------------------------------------------------
(* Utility Scoring Engine *)

\* C4: for the same stored record, the utility score the dashboard's
\* calculateComposite assigns to a vendor equals the total weighted score
\* getVendorTotals of the NWA tool reports for that vendor.
C4_DashboardUtilityMatchesNwa ==
    nwaProject = loadFromStorage(stored) =>
        \A j \in DOMAIN nwaProject.vendors :
            LET id == nwaProject.vendors[j].id
            IN id \in DOMAIN nwaScores(stored) =>
                   nwaScores(stored)[id] = getVendorTotals[j].totalWeighted

(* The total of a vendor in closed form: the raw scores weighted by the
   absolute weights, over the total absolute weight. *)
ClosedTotal(scores) ==
    LET w == calculateWeights
        criteria == nwaProject.criteria
        weighted == SumSeq([i \in DOMAIN criteria |->
                              MapGet(scores, criteria[i], 0) * w.absoluteWeights[criteria[i]]])
    IN IF w.totalAbsolute > 0 THEN Rat(weighted, w.totalAbsolute) ELSE R(0)

\* C5: getVendorTotals returns, for every vendor, the sum over the criteria
\* of rawScore x relativeWeight with a missing score counted as 0; that total
\* is the sum of the vendor's weightedScore cells of calculateResults, is 0
\* when all its raw scores are 0, lies in [0, 10] for raw scores in
\* {0, 1, 4, 6, 10}, and is the total calcNwaVendorTotals computes.
C5_VendorTotals ==
    LET totals == getVendorTotals
        results == calculateResults
        export == calcNwaVendorTotals(stored)
    IN /\ DOMAIN totals = DOMAIN nwaProject.vendors
       /\ \A j \in DOMAIN nwaProject.vendors :
             LET v == nwaProject.vendors[j]
                 t == totals[j].totalWeighted
             IN /\ totals[j].vendorId = v.id
                /\ t = ClosedTotal(v.scores)
                /\ t = RSumSeq([i \in DOMAIN results |-> results[i].vendorScores[j].weightedScore])
                /\ (\A c \in Criteria : MapGet(v.scores, c, 0) = 0) => t = R(0)
                /\ RLeq(R(0), t) /\ RLeq(t, R(10))
                /\ export[j].vendorId = v.id /\ export[j].total = t

\* C5 witness: a vendor with a score of 10 on one criterion and no score on
\* the other, under unequal weights, so that its total is strictly between 0
\* and 10.
C5_Witness ==
    \E j \in DOMAIN nwaProject.vendors :
        LET v == nwaProject.vendors[j]
            t == getVendorTotals[j].totalWeighted
        IN /\ Len(nwaProject.criteria) >= 2
           /\ \E c \in Criteria : c \in DOMAIN v.scores /\ v.scores[c] = 10
           /\ \E c \in Criteria : c \notin DOMAIN v.scores
           /\ RLt(R(0), t) /\ RLt(t, R(10))

(* C6: for every option and every horizon years >= 0 the schedule of
   calculateOptionResult has exactly years + 1 entries, for the years
   0..years in order; year 0 costs totalInitial only and every later year
   costs totalAnnual only, so the cumulative cost at year y is
   totalInitial + y * totalAnnual and tco is totalInitial + years *
   totalAnnual, which is the value the dashboard computes from the same costs;
   with years = 0 there is one entry and tco is totalInitial. *)
C6_ScheduleClosedForm ==
    LET results == calculateAllResults
    IN \A k \in DOMAIN tcoProject.options :
        LET o == tcoProject.options[k]
            years == tcoProject.years
            r == results[k]
            totalInitial == TotalAmount(o.initialCosts)
            totalAnnual == TotalAmount(o.annualCosts)
        IN /\ years >= 0
           /\ Len(r.yearlyCosts) = years + 1
           /\ \A y \in 0..years :
                  LET yc == r.yearlyCosts[y + 1]
                  IN /\ yc.year = y
                     /\ yc.initial = (IF y = 0 THEN totalInitial ELSE 0)
                     /\ yc.annual = (IF y = 0 THEN 0 ELSE totalAnnual)
                     /\ yc.total = (IF y = 0 THEN totalInitial ELSE totalAnnual)
                     /\ yc.cumulative = totalInitial + y * totalAnnual
           /\ r.totalInitial = totalInitial
           /\ r.totalAnnual = totalAnnual
           /\ r.tco = totalInitial + years * totalAnnual
           /\ r.tco = compositeTco(o, years)
           /\ (years = 0 => Len(r.yearlyCosts) = 1 /\ r.tco = totalInitial)

C6_Witness ==
    \E k \in DOMAIN tcoProject.options :
        /\ tcoProject.years = 2
        /\ TotalAmount(tcoProject.options[k].initialCosts) = 10
        /\ TotalAmount(tcoProject.options[k].annualCosts) = 10
        /\ calculateAllResults[k].tco = 30

(* C7: with discountRate = 0 every year's discounted cost equals its
   undiscounted cost, cumulativeDiscounted equals cumulative at every year and
   npv equals tco exactly; and whatever the rate, the cost of year 0 is not
   discounted. *)
C7_ZeroRateNoDiscount ==
    LET results == calculateAllResults
    IN \A k \in DOMAIN tcoProject.options :
        LET r == results[k]
        IN /\ r.yearlyCosts # <<>> => r.yearlyCosts[1].discounted = R(r.yearlyCosts[1].total)
           /\ tcoProject.discountRate = 0 =>
                  /\ \A i \in DOMAIN r.yearlyCosts :
                         /\ r.yearlyCosts[i].discounted = R(r.yearlyCosts[i].total)
                         /\ r.yearlyCosts[i].cumulativeDiscounted =
                                R(r.yearlyCosts[i].cumulative)
                  /\ r.npv = R(r.tco)

C7_Witness ==
    /\ tcoProject.discountRate = 0
    /\ tcoProject.years = 5
    /\ \E k \in DOMAIN tcoProject.options :
           /\ TotalAmount(tcoProject.options[k].initialCosts) = 10
           /\ TotalAmount(tcoProject.options[k].annualCosts) = 10
           /\ calculateAllResults[k].npv = R(60)

(* the least year y in 1..years whose cumulative benefit covers the cumulative
   cost totalInitial + y * totalAnnual, or null *)
FirstCoveredYear(totalInitial, totalAnnual, annualBenefit, years) ==
    LET covered == {y \in 1..years : annualBenefit * y >= totalInitial + y * totalAnnual}
    IN IF covered = {} THEN Null
       ELSE CHOOSE y \in covered : \A z \in covered : y <= z

ExampleProject ==
    [ name |-> "example", years |-> 5, discountRate |-> 0,
      options |-> << [ id |-> 1,
                       initialCosts |-> << [id |-> 1, amount |-> 1000] >>,
                       annualCosts |-> <<>> ] >>,
      benefits |-> << [id |-> 1, annualAmount |-> 500] >> ]

(* C8: calculateRoi sets breakEvenYear to the smallest year y with
   1 <= y <= years such that annualBenefit * y >= cumulative cost at y, and to
   null when there is no such year; year 0 is never returned, even when all
   costs are 0.  totalInitial = 1000, totalAnnual = 0, annualBenefit = 500,
   years = 5 gives 2. *)
C8_BreakEvenYear ==
    /\ LET rois == calculateRoi
       IN \A k \in DOMAIN tcoProject.options :
           LET o == tcoProject.options[k]
               roi == rois[k]
           IN /\ roi.breakEvenYear =
                     FirstCoveredYear(TotalAmount(o.initialCosts), TotalAmount(o.annualCosts),
                                      calculateTotalAnnualBenefit, tcoProject.years)
              /\ roi.breakEvenYear # 0
    /\ calculateRoiOf(ExampleProject)[1].breakEvenYear = 2

C8_Witness ==
    /\ tcoProject.years = 5
    /\ calculateTotalAnnualBenefit = 5
    /\ \E k \in DOMAIN tcoProject.options :
           /\ TotalAmount(tcoProject.options[k].initialCosts) = 10
           /\ TotalAmount(tcoProject.options[k].annualCosts) = 0
           /\ calculateRoi[k].breakEvenYear = 2

(* C9: for every option calculateRoi returns totalBenefit = annualBenefit *
   years, the same for all options, netBenefit = totalBenefit - tco, and
   roiPercent = netBenefit / tco * 100 when tco > 0 and exactly 0 when
   tco <= 0; roiPercent is always a finite number. *)
C9_RoiGuarded ==
    LET rois == calculateRoi
    IN \A k \in DOMAIN tcoProject.options :
        LET o == tcoProject.options[k]
            roi == rois[k]
            tco == TotalAmount(o.initialCosts) + tcoProject.years * TotalAmount(o.annualCosts)
            totalBenefit == calculateTotalAnnualBenefit * tcoProject.years
        IN /\ roi.tco = tco
           /\ roi.totalBenefit = totalBenefit
           /\ \A j \in DOMAIN tcoProject.options : rois[j].totalBenefit = roi.totalBenefit
           /\ roi.netBenefit = totalBenefit - tco
           /\ tco > 0 => roi.roiPercent = Rat((totalBenefit - tco) * 100, tco)
           /\ tco <= 0 => roi.roiPercent = R(0)
           /\ IsFinite(roi.roiPercent)

C9_Witness ==
    /\ calculateTotalAnnualBenefit = 5
    /\ \E k \in DOMAIN tcoProject.options :
           /\ tcoProject.options[k].initialCosts = <<>>
           /\ tcoProject.options[k].annualCosts = <<>>
           /\ calculateRoi[k].netBenefit > 0
           /\ calculateRoi[k].roiPercent = R(0)

Band(level) == levelRange(level)[1] .. levelRange(level)[2]

LevelIndex(level) == CHOOSE i \in DOMAIN RiskLevels : RiskLevels[i] = level

(* C10: getRiskLevel puts every score into exactly one band: score <= 4 is
   low, 5..9 medium, 10..15 high, 16..25 critical; the bands, which are the
   ranges the legend shows, partition 1..25; the level is monotone in the
   score; 1*4 = 4 is low, 3*3 = 9 medium, 2*5 = 10 high, 5*5 = 25 critical.
   Every risk item of the project is classified into the band that holds its
   score. *)
C10_RiskLevelBands ==
    /\ \A score \in 1..25 :
           /\ getRiskLevel(score) \in Range(RiskLevels)
           /\ score \in Band(getRiskLevel(score))
           /\ \A level \in Range(RiskLevels) :
                  score \in Band(level) => level = getRiskLevel(score)
           /\ \A lower \in 1..score :
                  LevelIndex(getRiskLevel(lower)) <= LevelIndex(getRiskLevel(score))
    /\ \A score \in 0..25 :
           /\ score <= 4 => getRiskLevel(score) = "low"
           /\ score \in 5..9 => getRiskLevel(score) = "medium"
           /\ score \in 10..15 => getRiskLevel(score) = "high"
           /\ score \in 16..25 => getRiskLevel(score) = "critical"
    /\ getRiskLevel(1 * 4) = "low"
    /\ getRiskLevel(3 * 3) = "medium"
    /\ getRiskLevel(2 * 5) = "high"
    /\ getRiskLevel(5 * 5) = "critical"
    /\ \A v \in DOMAIN riskProject.vendors :
           LET rows == RiskRows(riskProject.vendors[v].risks)
           IN \A i \in DOMAIN rows :
                  /\ rows[i].score \in 1..25
                  /\ rows[i].score \in Band(rows[i].level)

C10_Witness ==
    \E v \in DOMAIN riskProject.vendors :
        LET rows == RiskRows(riskProject.vendors[v].risks)
        IN /\ Len(rows) = 2
           /\ rows[1].probability = 1 /\ rows[1].impact = 4 /\ rows[1].level = "low"
           /\ rows[2].probability = 2 /\ rows[2].impact = 5 /\ rows[2].level = "high"

(* an id no vendor of the risk project has *)
UnknownVendorId == 1 + SumSeq([k \in DOMAIN riskProject.vendors |-> riskProject.vendors[k].id])

(* C11: for every vendor calculateVendorRisk returns every item with
   score = probability * impact and the level of that score, totalScore = the
   sum of the item scores, avgScore = totalScore / item count (0 without
   items), maxScore = the largest item score (0 without items) and riskCounts
   whose four tallies add up to the number of items; an unknown vendor id
   gives the all-zero result.  The export's calcRiskSummaries reports the same
   figures for the stored vendors that have risk items. *)
C11_VendorRiskSummary ==
    /\ \A k \in DOMAIN riskProject.vendors :
          LET v == riskProject.vendors[k]
              n == Len(v.risks)
              r == calculateVendorRisk(v.id)
              sum == SumSeq([i \in 1..n |-> v.risks[i].probability * v.risks[i].impact])
          IN /\ r.vendorId = v.id
             /\ Len(r.risks) = n
             /\ \A i \in 1..n :
                   /\ r.risks[i].score = v.risks[i].probability * v.risks[i].impact
                   /\ r.risks[i].level = getRiskLevel(r.risks[i].score)
             /\ r.totalScore = sum
             /\ IsFinite(r.avgScore)
             /\ RMul(r.avgScore, R(n)) = (IF n > 0 THEN R(sum) ELSE R(0))
             /\ n = 0 => r.avgScore = R(0) /\ r.maxScore = 0
             /\ n > 0 => /\ \E i \in 1..n : r.maxScore = r.risks[i].score
                         /\ \A i \in 1..n : r.risks[i].score <= r.maxScore
             /\ DOMAIN r.riskCounts = {"low", "medium", "high", "critical"}
             /\ r.riskCounts["low"] + r.riskCounts["medium"] + r.riskCounts["high"]
                   + r.riskCounts["critical"] = n
             /\ \A level \in DOMAIN r.riskCounts :
                   r.riskCounts[level] = Cardinality({i \in 1..n : r.risks[i].level = level})
    /\ LET u == calculateVendorRisk(UnknownVendorId)
       IN /\ u.risks = <<>> /\ u.totalScore = 0 /\ u.avgScore = R(0) /\ u.maxScore = 0
          /\ \A level \in DOMAIN u.riskCounts : u.riskCounts[level] = 0
    /\ LET summaries == calcRiskSummaries(stored)
           loaded == riskLoadFromStorage(stored)
       IN \A k \in DOMAIN summaries :
             LET r == calculateVendorRiskOf(loaded, summaries[k].vendorId)
             IN /\ summaries[k].riskCount = Len(r.risks) /\ summaries[k].riskCount > 0
                /\ summaries[k].totalScore = r.totalScore
                /\ summaries[k].avgScore = r.avgScore
                /\ summaries[k].maxScore = r.maxScore
                /\ summaries[k].counts = r.riskCounts

C11_Witness ==
    /\ \E k \in DOMAIN riskProject.vendors :
          LET r == calculateAllVendorRisks[k]
          IN /\ r.totalScore = 14 /\ r.avgScore = R(7) /\ r.maxScore = 10
             /\ r.riskCounts["low"] = 1 /\ r.riskCounts["high"] = 1
    /\ \E k \in DOMAIN riskProject.vendors : riskProject.vendors[k].risks = <<>>
    /\ Len(calcRiskSummaries(stored)) = 1

(* C12: a vendor with zero risk items is never rank-eligible on risk. In the
   ranking of calculateComposite its riskAvg and riskRank are null and its
   compositeScore is the blend of its utility and cost dimensions alone, the
   risk weight entering neither the sum nor the divisor; in the risk results
   view it never carries the 'lowest risk' badge. The vendors with at least
   one risk item, and only they, are ranked, ascending by average score, and
   the badge goes to one with the smallest average. *)
C12_NoRisksNotRankEligible ==
    LET ranking == dashboard.ranking
        results == calculateAllVendorRisks
        nNwa == Cardinality({k \in DOMAIN ranking : ranking[k].nwaRank # Null})
        nTco == Cardinality({k \in DOMAIN ranking : ranking[k].tcoRank # Null})
        withRisks == {k \in DOMAIN results : Len(results[k].risks) > 0}
    IN /\ \A k \in DOMAIN ranking :
            LET row == ranking[k]
                wn == IF row.nwaRank # Null THEN dashboard.weightNwa ELSE 0
                wt == IF row.tcoRank # Null THEN dashboard.weightTco ELSE 0
                sn == IF row.nwaRank # Null THEN RMul(Normalized(nNwa, row.nwaRank), R(wn)) ELSE R(0)
                stc == IF row.tcoRank # Null THEN RMul(Normalized(nTco, row.tcoRank), R(wt)) ELSE R(0)
            IN IF Len(RiskVendorById(row.id).risks) = 0
               THEN /\ row.riskAvg = NoNumber
                    /\ row.riskRank = Null
                    /\ row.compositeScore =
                           IF wn + wt > 0 THEN RDiv(RAdd(sn, stc), R(wn + wt)) ELSE R(0)
               ELSE /\ row.riskAvg = calculateVendorRisk(row.id).avgScore
                    /\ row.riskRank \in 1..Cardinality(withRisks)
       /\ \A a \in DOMAIN ranking, b \in DOMAIN ranking :
            (ranking[a].riskRank # Null /\ ranking[b].riskRank # Null
               /\ ranking[a].riskRank < ranking[b].riskRank)
            => RLeq(ranking[a].riskAvg, ranking[b].riskAvg)
       /\ \A k \in DOMAIN results :
            /\ Len(results[k].risks) = 0 => ~isBest(results, results[k])
            /\ isBest(results, results[k])
               => \A j \in withRisks : RLeq(results[k].avgScore, results[j].avgScore)
       /\ withRisks # {} => \E k \in withRisks : isBest(results, results[k])

(* a vendor without risk items next to one with risk items, after the cost
   slider was moved: the first has utility and cost ranks only, the second
   is rank 1 on risk and carries the badge *)
C12_Witness ==
    /\ dashboard.weightTco = 0
    /\ dashboard.weightRisk = 20
    /\ \E a \in DOMAIN dashboard.ranking, b \in DOMAIN dashboard.ranking :
         /\ dashboard.ranking[a].riskRank = Null
         /\ dashboard.ranking[a].nwaRank # Null
         /\ dashboard.ranking[a].compositeScore = R(100)
         /\ Len(RiskVendorById(dashboard.ranking[a].id).risks) = 0
         /\ dashboard.ranking[b].riskRank = 1
         /\ bestVendorId(calculateAllVendorRisks) = dashboard.ranking[b].id

(* C13: in each dimension of calculateComposite the n vendors that have a
   value receive the distinct ranks 1..n, by utility descending, by cost
   ascending and by risk average ascending, and the vendors without a value
   receive no rank. A rank is normalized to 100 when n = 1 and to
   (n - rank) / (n - 1) x 100 otherwise, so that rank 1 maps to 100 and rank n
   to 0: every compositeScore is the blend of exactly these normalized
   values. The export's calcComposite yields the same ranking. *)
C13_RanksAndNormalization ==
    LET ranking == dashboard.ranking
        all == DOMAIN ranking
        hasNwa == {k \in all : ranking[k].nwaScore # NoNumber}
        hasTco == {k \in all : ranking[k].tco # NoNumber}
        hasRisk == {k \in all : ranking[k].riskAvg # NoNumber}
        norm(n, rank) == IF n = 1 THEN R(100) ELSE RDiv(R((n - rank) * 100), R(n - 1))
        part(n, rank, weight) == IF rank = Null THEN R(0) ELSE RMul(norm(n, rank), R(weight))
        applied(rank, weight) == IF rank = Null THEN 0 ELSE weight
    IN /\ {ranking[k].nwaRank : k \in hasNwa} = 1..Cardinality(hasNwa)
       /\ {ranking[k].tcoRank : k \in hasTco} = 1..Cardinality(hasTco)
       /\ {ranking[k].riskRank : k \in hasRisk} = 1..Cardinality(hasRisk)
       /\ \A k \in all \ hasNwa : ranking[k].nwaRank = Null
       /\ \A k \in all \ hasTco : ranking[k].tcoRank = Null
       /\ \A k \in all \ hasRisk : ranking[k].riskRank = Null
       /\ \A a \in hasNwa, b \in hasNwa :
            ranking[a].nwaRank < ranking[b].nwaRank => RLeq(ranking[b].nwaScore, ranking[a].nwaScore)
       /\ \A a \in hasTco, b \in hasTco :
            ranking[a].tcoRank < ranking[b].tcoRank => RLeq(ranking[a].tco, ranking[b].tco)
       /\ \A a \in hasRisk, b \in hasRisk :
            ranking[a].riskRank < ranking[b].riskRank => RLeq(ranking[a].riskAvg, ranking[b].riskAvg)
       /\ \A k \in all :
            LET row == ranking[k]
                weight == applied(row.nwaRank, dashboard.weightNwa)
                            + applied(row.tcoRank, dashboard.weightTco)
                            + applied(row.riskRank, dashboard.weightRisk)
            IN weight > 0 =>
                 RMul(row.compositeScore, R(weight)) =
                   RAdd(RAdd(part(Cardinality(hasNwa), row.nwaRank, dashboard.weightNwa),
                             part(Cardinality(hasTco), row.tcoRank, dashboard.weightTco)),
                        part(Cardinality(hasRisk), row.riskRank, dashboard.weightRisk))
       /\ Normalized(1, 1) = R(100)
       /\ \A n \in 2..(MaxRankedVendors + 1) : Normalized(n, 1) = R(100) /\ Normalized(n, n) = R(0)
       /\ calcComposite(stored, dashboard.weightNwa, dashboard.weightTco, dashboard.weightRisk) = ranking

(* two vendors ranked 1 and 2 on utility, the second without a cost value,
   the first the only vendor ranked on risk; the utility slider is at 0, so
   the first vendor's score of 100 comes from the single-vendor rule and
   from rank 1 on cost *)
C13_Witness ==
    /\ dashboard.weightNwa = 0
    /\ dashboard.weightRisk = 20
    /\ \E a \in DOMAIN dashboard.ranking, b \in DOMAIN dashboard.ranking :
         /\ dashboard.ranking[a].nwaRank = 1
         /\ dashboard.ranking[b].nwaRank = 2
         /\ dashboard.ranking[b].tcoRank = Null
         /\ dashboard.ranking[a].riskRank = 1
         /\ dashboard.ranking[b].riskRank = Null
         /\ dashboard.ranking[a].compositeScore = R(100)

(* the rows of the rendered ranking that have a utility rank and neither a
   cost nor a risk rank, and the number of vendors ranked on utility *)
UtilityOnlyRows ==
    {k \in DOMAIN dashboard.ranking :
        /\ dashboard.ranking[k].nwaRank # Null
        /\ dashboard.ranking[k].tcoRank = Null
        /\ dashboard.ranking[k].riskRank = Null}

UtilityRankedCount ==
    Cardinality({k \in DOMAIN dashboard.ranking : dashboard.ranking[k].nwaRank # Null})

(* C14 as stated: a vendor with a utility value and neither a cost value nor
   a risk average has a composite score equal to its rank-normalized utility
   score, for any non-negative values of the three weights. *)
C14_UtilityOnlyAnyWeights ==
    \A k \in UtilityOnlyRows :
        dashboard.ranking[k].compositeScore =
            Normalized(UtilityRankedCount, dashboard.ranking[k].nwaRank)

(* C14, amended: with a positive utility weight the composite score of such a
   vendor equals its rank-normalized utility score, whatever the cost and
   risk weights are; with a utility weight of 0 the applied weight is 0 and
   the composite score is 0. *)
C14_UtilityOnlyPositiveWeight ==
    LET norm(n, rank) == IF n = 1 THEN R(100) ELSE RDiv(R((n - rank) * 100), R(n - 1))
    IN \A k \in UtilityOnlyRows :
         dashboard.ranking[k].compositeScore =
            IF dashboard.weightNwa > 0
            THEN norm(UtilityRankedCount, dashboard.ranking[k].nwaRank)
            ELSE R(0)

(* a utility-only vendor ranked first of two on utility, next to a vendor
   with cost data, with the risk slider moved to 0 and the cost weight 40 *)
C14_Witness ==
    /\ dashboard.weightNwa = 40
    /\ dashboard.weightTco = 40
    /\ dashboard.weightRisk = 0
    /\ UtilityRankedCount = 2
    /\ \E k \in UtilityOnlyRows :
         /\ dashboard.ranking[k].nwaRank = 1
         /\ dashboard.ranking[k].compositeScore = R(100)
    /\ \E b \in DOMAIN dashboard.ranking : dashboard.ranking[b].tcoRank = 1

(* the rows of the rendered ranking whose vendor has a positive cost total,
   no entry in the scores map and no risk items *)
CostOnlyRows ==
    {k \in DOMAIN dashboard.ranking :
        /\ dashboard.ranking[k].tco # NoNumber
        /\ dashboard.ranking[k].id \notin DOMAIN stored.nwa.scores
        /\ MapGet(stored.risk.vendors, dashboard.ranking[k].id, <<>>) = <<>>}

(* C15: a vendor with cost data, no recorded utility scores and no risk items
   is ranked purely on cost: it has no utility rank and, the cost weight
   being positive, its composite score equals its rank-normalized cost score,
   also when criteria exist and other vendors have utility scores. *)
C15_CostOnlyRankedOnCost ==
    LET nTco == Cardinality({k \in DOMAIN dashboard.ranking : dashboard.ranking[k].tcoRank # Null})
    IN \A k \in CostOnlyRows :
         /\ dashboard.ranking[k].nwaRank = Null
         /\ dashboard.weightTco > 0 =>
              dashboard.ranking[k].compositeScore = Normalized(nTco, dashboard.ranking[k].tcoRank)

(* the rows of the rendered ranking without a value in any dimension *)
NoDataRows ==
    {k \in DOMAIN dashboard.ranking :
        /\ dashboard.ranking[k].nwaScore = NoNumber
        /\ dashboard.ranking[k].tco = NoNumber
        /\ dashboard.ranking[k].riskAvg = NoNumber}

(* C16: calculateComposite never drops a known vendor. The ranking has one
   row per stored vendor and every vendor in exactly one row, the
   compositeRank of the k-th row is k, so the ranks are exactly 1..n, the
   compositeScore does not increase along the ranking, and a vendor without
   a value in any dimension appears with compositeScore 0. *)
C16_EveryVendorRanked ==
    LET ranking == dashboard.ranking
    IN /\ Len(ranking) = Len(stored.vendors)
       /\ \A j \in DOMAIN stored.vendors :
            Cardinality({k \in DOMAIN ranking : ranking[k].id = stored.vendors[j].id}) = 1
       /\ \A k \in DOMAIN ranking : ranking[k].compositeRank = k
       /\ {ranking[k].compositeRank : k \in DOMAIN ranking} = 1..Len(stored.vendors)
       /\ \A a \in DOMAIN ranking, b \in DOMAIN ranking :
            ranking[a].compositeRank < ranking[b].compositeRank
            => RLeq(ranking[b].compositeScore, ranking[a].compositeScore)
       /\ \A k \in NoDataRows : ranking[k].compositeScore = R(0)
       /\ calculateComposite = ranking

(* two vendors in a project without criteria, the risk slider moved to 0:
   one has cost data and is first with 100, the other has no data at all
   and is second with 0 *)
C16_Witness ==
    /\ dashboard.weightRisk = 0
    /\ Len(stored.vendors) = 2
    /\ Len(dashboard.ranking) = 2
    /\ dashboard.ranking[1].compositeScore = R(100)
    /\ dashboard.ranking[1].tcoRank = 1
    /\ 2 \in NoDataRows
    /\ dashboard.ranking[2].compositeScore = R(0)
    /\ dashboard.ranking[2].compositeRank = 2

(* the factors the three weights are multiplied by *)
ScaleFactors == {2, 3}

(* the weights of the page multiplied by factor *)
ScaledWeights(factor) ==
    [ weightNwa |-> dashboard.weightNwa * factor,
      weightTco |-> dashboard.weightTco * factor,
      weightRisk |-> dashboard.weightRisk * factor ]

(* C17: only the ratio of the three composite weights matters. With the three
   weights multiplied by the same positive factor, calculateComposite and the
   export's calcComposite return the ranking the page shows: every vendor
   keeps its compositeScore and its compositeRank. *)
C17_WeightRatioOnly ==
    \A factor \in ScaleFactors :
        /\ calculateCompositeOf(stored, ScaledWeights(factor)) = dashboard.ranking
        /\ calcComposite(stored, dashboard.weightNwa * factor, dashboard.weightTco * factor,
                         dashboard.weightRisk * factor) = dashboard.ranking

(* two vendors under the weights 40/40/0, one of them with a blended score
   strictly between 0 and 100, and the same ranking under 80/80/0 *)
C17_Witness ==
    /\ dashboard.weightNwa = 40
    /\ dashboard.weightTco = 40
    /\ dashboard.weightRisk = 0
    /\ Len(dashboard.ranking) = 2
    /\ \E k \in DOMAIN dashboard.ranking :
         /\ dashboard.ranking[k].nwaRank # Null
         /\ dashboard.ranking[k].tcoRank # Null
         /\ dashboard.ranking[k].compositeScore = R(50)
    /\ calculateCompositeOf(stored, ScaledWeights(2)) = dashboard.ranking

(* the stored project with its vendor list in the opposite order *)
VendorsReversed ==
    [stored EXCEPT !.vendors = [j \in DOMAIN stored.vendors |->
                                  stored.vendors[Len(stored.vendors) + 1 - j]]]

(* C18: two vendors with equal raw values in a dimension receive the same
   normalized score in that dimension, and the composite score of a vendor
   does not depend on the order of the vendor list. *)
C18_TiesShareNormalizedScore ==
    LET ranking == dashboard.ranking
        all == DOMAIN ranking
        nNwa == Cardinality({k \in all : ranking[k].nwaRank # Null})
        nTco == Cardinality({k \in all : ranking[k].tcoRank # Null})
        nRisk == Cardinality({k \in all : ranking[k].riskRank # Null})
        reversed == calculateCompositeOf(VendorsReversed, Weights)
    IN /\ \A a \in all, b \in all :
            /\ (ranking[a].nwaRank # Null /\ ranking[a].nwaScore = ranking[b].nwaScore)
               => Normalized(nNwa, ranking[a].nwaRank) = Normalized(nNwa, ranking[b].nwaRank)
            /\ (ranking[a].tcoRank # Null /\ ranking[a].tco = ranking[b].tco)
               => Normalized(nTco, ranking[a].tcoRank) = Normalized(nTco, ranking[b].tcoRank)
            /\ (ranking[a].riskRank # Null /\ ranking[a].riskAvg = ranking[b].riskAvg)
               => Normalized(nRisk, ranking[a].riskRank) = Normalized(nRisk, ranking[b].riskRank)
       /\ \A a \in all, b \in DOMAIN reversed :
            ranking[a].id = reversed[b].id
            => ranking[a].compositeScore = reversed[b].compositeScore

(* C19: a call of a calculation function leaves the stored project record,
   the three in-memory projects and the weights of the page unchanged, the
   order of criteria and vendors included. The functions read nothing else,
   so a second call on the unchanged snapshot returns the same result: the
   criteria sorted by weight, whose computation sorts an array, are the same
   after the call as before it. *)
C19_CalculationsArePure ==
    [][ ( \/ CalculateWeights
          \/ CalculateResults
          \/ GetVendorTotals
          \/ GetCriteriaSortedByWeight
          \/ CalculateVendorRisk
          \/ CalculateOptionResult
          \/ CalculateRoi
          \/ CalculateComposite )
        => /\ UNCHANGED <<stored, nwaProject, tcoProject, riskProject>>
           /\ getCriteriaSortedByWeightOf(nwaProject') = getCriteriaSortedByWeight
           /\ dashboard' = dashboard ]_vars

(* a project whose second criterion outweighs the first, so that the sorted
   criteria differ from the project's order, with a vendor, a risk item and
   a cost option for the other functions to work on *)
C19_Witness ==
    /\ nwaProject.criteria = <<1, 2>>
    /\ getCriteriaSortedByWeight = <<2, 1>>
    /\ Len(nwaProject.vendors) > 0
    /\ RiskCount > 0
    /\ Len(tcoProject.options) > 0
    /\ Len(calculateAllResults) > 0

(* C20: for every project state reachable through the NWA state operations,
   setProjectName with any string included, importProject(exportProject())
   succeeds and leaves a project with the same name, criteria, pairwise
   judgments, vendors and scores, so that calculateWeights and
   getVendorTotals return the same values as before the export. *)
C20_JsonRoundTrip ==
    LET json == exportProject
        p == parse(json)
    IN /\ ~Rejected(json)
       /\ p = nwaProject
       /\ calculateWeightsOf(p.criteria, p.pairwise) = calculateWeights

(* C21: a write by one tool never deletes another domain's data. A mutation of
   the NWA tool, removeVendor and removeCriterion included, leaves the stored
   TCO section and the stored risk section exactly as they were; a mutation
   of the risk tool leaves the stored NWA section, the stored TCO section and
   the stored vendor list unchanged. *)
C21_WritesKeepOtherDomains ==
    [][ /\ NwaWrite => (stored'.tco = stored.tco /\ stored'.risk = stored.risk)
        /\ RiskWrite => /\ stored'.nwa = stored.nwa
                        /\ stored'.tco = stored.tco
                        /\ stored'.vendors = stored.vendors ]_vars

(* a vendor removed from the NWA tool whose cost record and risk list are
   still stored, in a project that has lost a criterion as well *)
C21_Witness ==
    /\ Len(nwaProject.criteria) = 1
    /\ \E id \in DOMAIN stored.tco.costs \cap DOMAIN stored.risk.vendors :
         /\ id \notin VendorIds
         /\ id \notin DOMAIN stored.nwa.scores
         /\ \E j \in DOMAIN stored.vendors : stored.vendors[j].id = id

(* the nearest value of lo..hi to x *)
Nearest(lo, hi, x) == IF x < lo THEN lo ELSE IF x > hi THEN hi ELSE x

(* C22: after any sequence of setYears and setDiscountRate calls the years of
   the TCO project are within 1..15 and its discount rate is within 0..50,
   and every call, also one with an argument out of range, stores the value
   of the range that is nearest to its argument. *)
C22_SettingsClamped ==
    /\ [](tcoProject.years \in 1..15 /\ tcoProject.discountRate \in 0..50)
    /\ [][ /\ \A years \in YearArguments :
                setYears(years) => tcoProject'.years = Nearest(1, 15, years)
           /\ \A rate \in RateArguments :
                setDiscountRate(rate) => tcoProject'.discountRate = Nearest(0, 50, rate) ]_vars

(* 15 years and a rate of 0, which only arguments above 15 and below 0 lead to *)
C22_Witness ==
    /\ tcoProject.years = 15
    /\ tcoProject.discountRate = 0

(* C23: after any sequence of addRisk, updateRisk, removeRisk and
   copyRisksToVendor calls, with the reloads of the risk tool in between,
   every risk item of the tool and of the stored record has a probability
   and an impact in 1..5, and every derived score of calculateVendorRisk is
   in 1..25. *)
C23_ItemsWithinScale ==
    /\ \A k \in DOMAIN riskProject.vendors :
          LET risks == riskProject.vendors[k].risks
              rows == calculateVendorRisk(riskProject.vendors[k].id).risks
          IN /\ \A i \in DOMAIN risks :
                   risks[i].probability \in 1..5 /\ risks[i].impact \in 1..5
             /\ Len(rows) = Len(risks)
             /\ \A i \in DOMAIN rows : rows[i].score \in 1..25
    /\ \A id \in DOMAIN stored.risk.vendors :
          \A i \in DOMAIN stored.risk.vendors[id] :
              LET r == stored.risk.vendors[id][i]
              IN r.probability \in 1..5 /\ r.impact \in 1..5

(* a probability set to 0 and an impact set to 6 were clamped to 1 and 5,
   and the copy of that item made for another vendor stands at 3/3 *)
C23_Witness ==
    \E a \in DOMAIN riskProject.vendors, b \in DOMAIN riskProject.vendors :
        /\ a # b
        /\ \E i \in DOMAIN riskProject.vendors[a].risks,
              j \in DOMAIN riskProject.vendors[b].risks :
              LET x == riskProject.vendors[a].risks[i]
                  y == riskProject.vendors[b].risks[j]
              IN /\ x.probability = 1 /\ x.impact = 5
                 /\ y.name = x.name
                 /\ y.probability = 3 /\ y.impact = 3
                 /\ calculateVendorRisk(riskProject.vendors[a].id).risks[i].score = 5

(* C24: a storage event for the shared key makes the page that receives it
   replace its project by the one loaded from the stored record (the
   dashboard: show the ranking of the stored record) and leaves the stored
   record as it is, so that handling an event raises no further event and a
   second delivery of it changes nothing; a storage event for another key
   changes nothing at all. *)
C24_StorageEventOnlyReloads ==
    [][ /\ \A key \in StorageKeys :
              /\ onStorage(key) =>
                    /\ stored' = stored
                    /\ UNCHANGED <<tcoProject, riskProject, genCount, dashboard>>
                    /\ nwaProject' = IF key = STORAGE_KEY THEN loadFromStorage(stored)
                                     ELSE nwaProject
              /\ riskOnStorage(key) =>
                    /\ stored' = stored
                    /\ UNCHANGED <<nwaProject, tcoProject, genCount, dashboard>>
                    /\ riskProject' = IF key = STORAGE_KEY THEN riskLoadFromStorage(stored)
                                      ELSE riskProject
              /\ dashboardOnStorage(key) =>
                    /\ stored' = stored
                    /\ UNCHANGED <<nwaProject, tcoProject, riskProject, genCount>>
                    /\ dashboard' = IF key = STORAGE_KEY THEN DashboardOver(stored)
                                    ELSE dashboard
      ]_vars

(* the three pages caught up, through their listeners, with two vendors
   written by the two tabs of the NWA tool and a risk item of the risk tool *)
C24_Witness ==
    /\ Len(stored.vendors) = 2
    /\ DOMAIN stored.risk.vendors # {}
    /\ nwaProject = loadFromStorage(stored)
    /\ riskProject = riskLoadFromStorage(stored)
    /\ dashboard = DashboardOver(stored)

(* the total of a cost record as the claim states it *)
CostTotal(costs, years) ==
    SumSeq([k \in DOMAIN costs.initialCosts |-> costs.initialCosts[k].amount])
    + SumSeq([k \in DOMAIN costs.annualCosts |-> costs.annualCosts[k].amount]) * years

HasPositiveCosts(id) ==
    /\ id \in DOMAIN stored.tco.costs
    /\ CostTotal(stored.tco.costs[id], stored.tco.years) > 0

(* C25: in the ranking of calculateComposite and in that of the export's
   calcComposite a vendor has a TCO value and a TCO rank exactly when it has
   a cost record whose totalInitial + totalAnnual * years is above 0, and the
   value is that total; for every other vendor tco and tcoRank are null and
   its composite score is the one of its utility and risk shares alone, the
   cost weight not being applied. *)
C25_TcoOnlyWithPositiveCosts ==
    LET exported == calcComposite(stored, dashboard.weightNwa, dashboard.weightTco,
                                  dashboard.weightRisk)
        rowsOk(ranking) ==
            LET nNwa == Cardinality({k \in DOMAIN ranking : ranking[k].nwaRank # Null})
                nRisk == Cardinality({k \in DOMAIN ranking : ranking[k].riskRank # Null})
            IN \A k \in DOMAIN ranking :
                 LET row == ranking[k]
                 IN IF HasPositiveCosts(row.id)
                    THEN /\ row.tco = R(CostTotal(stored.tco.costs[row.id], stored.tco.years))
                         /\ row.tcoRank \in 1..Len(ranking)
                    ELSE /\ row.tco = NoNumber
                         /\ row.tcoRank = Null
                         /\ row.compositeScore =
                              CompositeScore(Applied(row.nwaRank, nNwa, dashboard.weightNwa),
                                             [score |-> R(0), appliedWeight |-> 0],
                                             Applied(row.riskRank, nRisk, dashboard.weightRisk))
    IN /\ rowsOk(dashboard.ranking)
       /\ rowsOk(exported)
       /\ Len(exported) = Len(stored.vendors)

(* with the cost weight at 40, a vendor whose items of 5 and -1 a year sum
   to 0 over the 5 years has no TCO value and no TCO rank and scores 100 on
   utility alone, next to a vendor with a TCO of 5 and TCO rank 1 *)
C25_Witness ==
    /\ dashboard.weightTco = 40
    /\ \E k \in DOMAIN dashboard.ranking :
          LET row == dashboard.ranking[k]
          IN /\ row.id \in DOMAIN stored.tco.costs
             /\ Len(stored.tco.costs[row.id].annualCosts) = 1
             /\ CostTotal(stored.tco.costs[row.id], stored.tco.years) = 0
             /\ row.tco = NoNumber
             /\ row.tcoRank = Null
             /\ row.compositeScore = R(100)
    /\ \E k \in DOMAIN dashboard.ranking :
          dashboard.ranking[k].tco = R(5) /\ dashboard.ranking[k].tcoRank = 1

(* no pair of criteria has a judgment stored in both directions, and every
   stored judgment is 0, 1 or 2 *)
OneWayJudgments(pw) ==
    /\ \A a \in Criteria : \A b \in Criteria \ {a} : ~(Stored(pw, a, b) /\ Stored(pw, b, a))
    /\ \A k \in DOMAIN pw : pw[k] \in {0, 1, 2}

(* C26: when every pair of criteria has a judgment in at most one direction,
   with a value of 0, 1 or 2, the contributions of a pair to its two criteria
   add up to 2, and the total absolute weight of calculateWeights is
   n * (n - 1) for n criteria whatever the judgments are; it is positive for
   every n >= 2. *)
C26_TotalAbsoluteWeight ==
    LET pw == nwaProject.pairwise
        n == Len(nwaProject.criteria)
        w == calculateWeights
    IN OneWayJudgments(pw) =>
         /\ \A a \in Criteria : \A b \in Criteria \ {a} :
               Contribution(pw, a, b) + Contribution(pw, b, a) = 2
         /\ w.totalAbsolute = n * (n - 1)
         /\ SumSeq([i \in 1..n |-> w.absoluteWeights[nwaProject.criteria[i]]]) = n * (n - 1)
         /\ n >= 2 => w.totalAbsolute > 0

(* three criteria, one pair judged 0, one judged 2 and one without a
   judgment: the weights differ and the total is 6 *)
C26_Witness ==
    LET pw == nwaProject.pairwise
        w == calculateWeights
    IN /\ Len(nwaProject.criteria) = 3
       /\ OneWayJudgments(pw)
       /\ {pw[k] : k \in DOMAIN pw} = {0, 2}
       /\ Cardinality(DOMAIN pw) = 2
       /\ Cardinality({w.absoluteWeights[c] : c \in Criteria}) > 1
       /\ w.totalAbsolute = 6

(* every key of the pairwise map names two criteria of the list, and every
   score of a vendor is a score for a criterion of the list *)
NoDanglingIn(criteria, pairwise, scoresOf) ==
    /\ \A k \in DOMAIN pairwise : k[1] \in Range(criteria) /\ k[2] \in Range(criteria)
    /\ \A v \in DOMAIN scoresOf : DOMAIN scoresOf[v] \subseteq Range(criteria)

NoDangling(p) ==
    NoDanglingIn(p.criteria, p.pairwise,
                 [j \in DOMAIN p.vendors |-> p.vendors[j].scores])

(* a call of setVendorScore for a criterion that is not in the list *)
ScoreForMissingCriterion ==
    \E vendorId \in VendorIds, criterionId \in CriterionIdsSoFar \ Criteria :
        setVendorScore(vendorId, criterionId, 4)

(* C27 as stated: after any sequence of addCriterion, setPairwise on existing
   criteria, setVendorScore and removeCriterion there is no key of the
   pairwise map and no vendor score for a criterion that is not in the list,
   in the project and in the stored record. *)
C27_NoDanglingAnyScoreCall ==
    /\ NoDangling(nwaProject)
    /\ NoDanglingIn(stored.nwa.criteria, stored.nwa.pairwise, stored.nwa.scores)

(* C27, with setVendorScore called for criteria of the list: a step of
   addCriterion, setPairwise on existing criteria, setVendorScore for an
   existing criterion or removeCriterion keeps the project and the stored
   record free of pairwise keys and vendor scores for criteria that are not
   in the list; removeCriterion(id) removes id from the list and leaves the
   order of the others, every judgment between them and every score for
   them as they were. *)
C27_NoDanglingReferences ==
    [][ /\ (C27_NoDanglingAnyScoreCall /\ ~ScoreForMissingCriterion) =>
              /\ NoDangling(nwaProject')
              /\ NoDanglingIn(stored'.nwa.criteria, stored'.nwa.pairwise, stored'.nwa.scores)
        /\ \A id \in Criteria :
              removeCriterion(id) =>
                 LET notId(c) == c # id
                 IN /\ nwaProject'.criteria = SelectSeq(nwaProject.criteria, notId)
                    /\ \A k \in DOMAIN nwaProject.pairwise :
                          (k[1] # id /\ k[2] # id) =>
                              /\ k \in DOMAIN nwaProject'.pairwise
                              /\ nwaProject'.pairwise[k] = nwaProject.pairwise[k]
                    /\ \A j \in DOMAIN nwaProject.vendors :
                          /\ nwaProject'.vendors[j].id = nwaProject.vendors[j].id
                          /\ \A c \in DOMAIN nwaProject.vendors[j].scores \ {id} :
                                /\ c \in DOMAIN nwaProject'.vendors[j].scores
                                /\ nwaProject'.vendors[j].scores[c]
                                     = nwaProject.vendors[j].scores[c]
      ]_vars

(* the first criterion, judged against the second and scored by a vendor,
   was removed: the second criterion is left with the vendor's score for it,
   and neither the judgment nor the score of the first is left *)
C27_Witness ==
    /\ nwaProject.criteria = <<2>>
    /\ nwaProject.pairwise = EmptyMap
    /\ \E j \in DOMAIN nwaProject.vendors : DOMAIN nwaProject.vendors[j].scores = {2}
    /\ genCount.criterion = 2
    /\ C27_NoDanglingAnyScoreCall

NonNegativeCosts(option) ==
    /\ \A i \in DOMAIN option.initialCosts : option.initialCosts[i].amount >= 0
    /\ \A i \in DOMAIN option.annualCosts : option.annualCosts[i].amount >= 0

(* C28: with no negative cost amount, when calculateRoi returns a
   breakEvenYear y for an option, the cumulative benefit covers the
   cumulative cost of the schedule in every year from y to the horizon, and
   is strictly below it in every year from 1 to y - 1. *)
C28_BreakEvenStable ==
    LET rois == calculateRoi
        results == calculateAllResults
        annualBenefit == calculateTotalAnnualBenefit
    IN \A k \in DOMAIN tcoProject.options :
         LET y == rois[k].breakEvenYear
             yearlyCosts == results[k].yearlyCosts
         IN (NonNegativeCosts(tcoProject.options[k]) /\ y # Null) =>
              /\ y \in 1..tcoProject.years
              /\ \A i \in DOMAIN yearlyCosts :
                    /\ yearlyCosts[i].year >= y =>
                          annualBenefit * yearlyCosts[i].year >= yearlyCosts[i].cumulative
                    /\ (yearlyCosts[i].year >= 1 /\ yearlyCosts[i].year < y) =>
                          annualBenefit * yearlyCosts[i].year < yearlyCosts[i].cumulative

(* 10 at the start and 2 a year against a benefit of 5 a year over 5 years:
   break-even in year 4, with years 1 to 3 below and year 5 above the cost *)
C28_Witness ==
    /\ tcoProject.years = 5
    /\ calculateTotalAnnualBenefit = 5
    /\ \E k \in DOMAIN tcoProject.options :
          /\ NonNegativeCosts(tcoProject.options[k])
          /\ TotalAmount(tcoProject.options[k].initialCosts) = 10
          /\ TotalAmount(tcoProject.options[k].annualCosts) = 2
          /\ calculateRoi[k].breakEvenYear = 4
          /\ calculateAllResults[k].yearlyCosts[6].cumulative = 20

(* the parsed value has no name, or an empty one *)
NoName(json) ==
    \/ json.type # "object"
    \/ "name" \notin DOMAIN json.members
    \/ json.members.name = JsonString("")

(* the parsed value lacks the array under key *)
NoArray(json, key) ==
    \/ json.type # "object"
    \/ key \notin DOMAIN json.members
    \/ json.members[key].type # "array"

(* C29: an import of a file whose value has no name, or lacks the criteria
   or the vendors array (NWA tool) or the options or the benefits array (TCO
   tool), leaves the projects of the tools, the stored record and what the
   pages show exactly as they were; an import of any other file makes the
   parsed value the project of the tool, which the NWA tool persists. *)
C29_RejectedImportChangesNothing ==
    [][ /\ \A json \in NwaFiles :
              importProject(json) =>
                 IF NoName(json) \/ NoArray(json, "criteria") \/ NoArray(json, "vendors")
                 THEN UNCHANGED vars
                 ELSE /\ nwaProject' = parse(json)
                      /\ stored' = persist(stored, parse(json))
        /\ \A json \in TcoFiles :
              tcoImportJson(json) =>
                 IF NoName(json) \/ NoArray(json, "options") \/ NoArray(json, "benefits")
                 THEN UNCHANGED vars
                 ELSE /\ tcoProject' = tcoParse(json)
                      /\ UNCHANGED <<stored, nwaProject, riskProject, genCount, dashboard>>
      ]_vars

(* both tools hold a project of their own making again after an accepted
   import of the whole files, so that the refused files met projects that
   differ from the files and from the empty project *)
C29_Witness ==
    /\ nwaProject.name = "Import"
    /\ Len(nwaProject.vendors) = 2
    /\ stored.name = "Import"
    /\ tcoProject.name = "Import"
    /\ tcoProject.years = 3
    /\ Len(tcoProject.options) = 1
    /\ Len(tcoProject.benefits) = 1

(* C30: removing a vendor in the NWA tool is durable. After removeVendor(id)
   the project the NWA tool loads from the stored record, on a page reload or
   on a storage event, has no vendor id, and the stored record has no scores
   for id, also when id has cost data or risk items. *)
C30_RemovedVendorStaysRemoved ==
    [][ \A id \in VendorIds :
           removeVendor(id) =>
              LET reloaded == loadFromStorage(stored')
              IN /\ \A j \in DOMAIN reloaded.vendors : reloaded.vendors[j].id # id
                 /\ id \notin DOMAIN stored'.nwa.scores
                 /\ \A j \in DOMAIN nwaProject'.vendors : nwaProject'.vendors[j].id # id
      ]_vars

====
